---- MODULE Spec2Model ----
(***************************************************************************)
(* Model of the my-ops domain adapters (extensions/my-ops/bin):            *)
(*   - himalaya-mail-adapter.js   (domain mail, backend: himalaya CLI)     *)
(*   - calendar adapter           (domain calendar, backend: osascript)    *)
(*   - mowen-api-adapter.js       (domain mowen/notes, backend: HTTP API)  *)
(* One behaviour is a history of invocations of ONE adapter program that   *)
(* share that adapter's state directory.  Every invocation is an OS        *)
(* process: it reads one envelope from stdin, writes envelopes to stdout   *)
(* and exits with a code.                                                  *)
(***************************************************************************)
EXTENDS Integers, Sequences, FiniteSets, TLC

\* ------------------------------------------------------------------ bounds
NumProcs == 2
MaxInvocations == 3
\* the notes rate limiter's minimum interval, and the last clock value, in ticks
MinIntervalTicks == 2
MaxClock == 4

Procs == 1..NumProcs

\* undefined / null / absent
NoVal == "none"
\* process.exit has not been called yet
NoExit == -1
\* child closed without a code (killed by a signal): code === null
NullCode == -2

\* a date that is not in the payload (undefined)
NoTime == -1

Programs == {"mail", "calendar", "notes", "ops"}

\* ------------------------------------------------------------------- time
\* Instants are counted in ticks of half an hour.  The machine's time zone is
\* part of the environment of an invocation: "fixed" has one offset, "spring"
\* moves the local clock one hour forward at DstAt, "fall" one hour back.
HourTicks == 2
DayHours == 24
WeekDays == 7
DstAt == 22
TimeZones == {"fixed", "spring", "fall"}

\* Date.prototype.getHours & co: local time of an instant
LocalTime(tz, t) ==
  CASE tz = "spring" -> IF t < DstAt THEN t ELSE t + HourTicks
    [] tz = "fall" -> IF t < DstAt THEN t + HourTicks ELSE t
    [] OTHER -> t

\* the instant of a local time; a local time that is skipped or repeated at
\* the transition is read with the offset in force before the transition
UtcOf(tz, local) ==
  CASE tz = "spring" -> IF local < DstAt + HourTicks THEN local ELSE local - HourTicks
    [] tz = "fall" -> IF local - HourTicks < DstAt THEN local - HourTicks ELSE local
    [] OTHER -> local

\* end.setHours(end.getHours() + hours): the hours are added to the local time
AddHours(tz, t, hours) == UtcOf(tz, LocalTime(tz, t) + hours * HourTicks)

\* The events of the Calendar application, by uid.
EventIds == {"e1", "e2"}
NoEvent ==
  [ present |-> FALSE, title |-> NoVal, start |-> NoTime, end |-> NoTime,
    allDay |-> FALSE ]
NoEvents == [id \in EventIds |-> NoEvent]

\* the uid the Calendar application gives to the next new event
FreshId(evs) == IF ~evs["e1"].present THEN "e1" ELSE "e2"
HasRoom(evs) == \E id \in EventIds : ~evs[id].present

\* ---------------------------------------------------------------- requests
\* What the caller writes to the adapter's stdin.  stdin = "object" is a JSON
\* object (an envelope) whose relevant fields are the other record fields;
\* "empty" is empty/blank input, "garbage" unparsable text, "nonobject" valid
\* JSON that is not an object (array, number, string, null).
\* The fields of a payload the note request builders read, NoVal when the key
\* is absent.  request, body, noteAtom, note_atom: "record" is a JSON object,
\* anything else a value that is not one ("string", "null"); paragraphs:
\* "array" is a JSON array; text: "blank" is a string of white space only,
\* "text" a string of `lines` lines with something in it.
NoNote ==
  [ request |-> NoVal, body |-> NoVal, noteAtom |-> NoVal, note_atom |-> NoVal,
    paragraphs |-> NoVal, text |-> NoVal, lines |-> 0 ]

Blank ==
  [ stdin |-> "object", action |-> NoVal, domain |-> NoVal, note |-> NoNote,
    meta |-> NoVal,
    envKey |-> NoVal, payKey |-> NoVal,
    rawMessage |-> NoVal, template |-> NoVal, formatMml |-> FALSE,
    requireKey |-> FALSE, account |-> NoVal,
    deep |-> FALSE, configPath |-> FALSE,
    id |-> NoVal, ids |-> FALSE, folder |-> FALSE,
    mode |-> NoVal, flags |-> FALSE,
    apiKey |-> FALSE, body |-> FALSE,
    title |-> NoVal, start |-> NoTime, end |-> NoTime, allDay |-> NoVal,
    evId |-> NoVal, query |-> NoVal, tz |-> "fixed", clock |-> 20 ]

Keys == {"K1", "K2"}
Contents == {"M1", "M2", "T1"}
Accounts == {"work"}

MalformedRequests ==
  { [Blank EXCEPT !.stdin = s] : s \in {"empty", "garbage", "nonobject"} }

MailActions ==
  { "health", "list_accounts", "list_folders", "list_messages", "search",
    "get_message", "draft_reply", "send_message", "archive",
    "delete_messages", "purge_folder", "mark_read", "label" }

\* send_message envelopes: raw message or template, with or without a key
MailSendRequests ==
  { [Blank EXCEPT !.action = "send_message", !.rawMessage = m, !.envKey = k]
      : m \in {NoVal, "M1", "M2"}, k \in {NoVal} \cup Keys }
  \cup
  { [Blank EXCEPT !.action = "send_message", !.template = "T1",
                  !.rawMessage = m, !.envKey = k]
      : m \in {NoVal, "M1"}, k \in {NoVal, "K1"} }
  \cup
  { [Blank EXCEPT !.action = "send_message", !.rawMessage = "M1",
                  !.formatMml = TRUE, !.envKey = k] : k \in {NoVal, "K1"} }
  \cup
  { [Blank EXCEPT !.action = "send_message", !.rawMessage = "M1",
                  !.payKey = k, !.requireKey = rq]
      : k \in {NoVal, "K1"}, rq \in BOOLEAN }
  \cup
  { [Blank EXCEPT !.action = "send_message", !.rawMessage = m,
                  !.envKey = "K1", !.account = "work"] : m \in {"M1", "M2"} }

MailOtherRequests ==
  { [Blank EXCEPT !.action = "health", !.deep = d, !.configPath = c]
      : d \in BOOLEAN, c \in BOOLEAN }
  \cup
  { [Blank EXCEPT !.action = a]
      : a \in {"list_accounts", "list_folders", "list_messages", "search"} }
  \cup
  { [Blank EXCEPT !.action = a, !.ids = l, !.id = i]
      : a \in {"get_message", "archive", "delete_messages", "mark_read"},
        l \in BOOLEAN, i \in {NoVal, "n42"} }
  \cup
  { [Blank EXCEPT !.action = "draft_reply", !.id = i]
      : i \in {NoVal, "s42", "n42"} }
  \cup
  { [Blank EXCEPT !.action = "purge_folder", !.folder = f] : f \in BOOLEAN }
  \cup
  { [Blank EXCEPT !.action = "label", !.ids = l, !.mode = m, !.flags = f]
      : l \in BOOLEAN, m \in {NoVal, "set", "bogus"}, f \in BOOLEAN }
  \cup
  { [Blank EXCEPT !.action = a] : a \in {NoVal, "frobnicate"} }
  \cup
  { [Blank EXCEPT !.action = "list_accounts", !.domain = d]
      : d \in {"mail", "calendar"} }

\* envelopes with a meta field as the callers write it: plugin, tool, timestamp
WithMeta(r) == [r EXCEPT !.meta = "tool"]

MailMetaRequests ==
  { WithMeta([Blank EXCEPT !.action = "send_message", !.rawMessage = "M1",
                           !.envKey = k]) : k \in {NoVal, "K1"} }
  \cup { WithMeta([Blank EXCEPT !.action = a])
           : a \in {"list_messages", "get_message", "frobnicate"} }

MailRequests ==
  MalformedRequests \cup MailSendRequests \cup MailOtherRequests
    \cup MailMetaRequests

\* the calendar adapter's supportedActions
CalendarActions ==
  { "health", "list_calendars", "list_events", "search", "get_event",
    "create_event", "update_event", "delete_event" }

\* title: "" is a title that is present and blank; allDay: "yes"/"no" are
\* the booleans true/false; evId "zz" names no event; tz and clock are the
\* machine's time zone and the value of new Date() during the run
CalendarPlainRequests ==
  { [Blank EXCEPT !.action = a]
      : a \in {"health", "list_calendars", NoVal, "frobnicate"} }
  \cup
  { [Blank EXCEPT !.action = "list_calendars", !.domain = d]
      : d \in {"calendar", "mail"} }

CalendarListRequests ==
  { [Blank EXCEPT !.action = "list_events", !.start = rg[1], !.end = rg[2]]
      : rg \in { <<21, 23>>, <<NoTime, NoTime>>, <<23, 21>> } }
  \cup
  { [Blank EXCEPT !.action = "search", !.start = 21, !.end = 23, !.query = q]
      : q \in {"T", "U"} }

CalendarCreateRequests ==
  { [Blank EXCEPT !.action = "create_event", !.title = t, !.start = st,
                  !.allDay = ad]
      : t \in {NoVal, "T"}, st \in {NoTime, 20}, ad \in {NoVal, "yes"} }
  \cup
  { [Blank EXCEPT !.action = "create_event", !.title = "T", !.start = 20,
                  !.allDay = ad, !.tz = tz]
      : ad \in {NoVal, "yes"}, tz \in {"spring", "fall"} }
  \cup
  { [Blank EXCEPT !.action = "create_event", !.title = "T", !.start = 23,
                  !.end = en] : en \in {24, 23, 22} }

CalendarUpdateRequests ==
  { [Blank EXCEPT !.action = "update_event", !.evId = "e1", !.start = st,
                  !.end = en, !.allDay = ad]
      : st \in {NoTime, 21, 25}, en \in {NoTime, 22, 20}, ad \in {NoVal, "yes"} }
  \cup
  { [Blank EXCEPT !.action = "update_event", !.evId = "e1", !.title = t,
                  !.end = en]
      : t \in {"U", ""}, en \in {NoTime, 20} }
  \cup
  { [Blank EXCEPT !.action = "update_event", !.evId = id, !.start = 21]
      : id \in {NoVal, "zz"} }

CalendarIdRequests ==
  { [Blank EXCEPT !.action = a, !.evId = id]
      : a \in {"get_event", "delete_event"}, id \in {NoVal, "e1", "zz"} }

CalendarMetaRequests ==
  { WithMeta([Blank EXCEPT !.action = "create_event", !.title = "T",
                           !.start = st]) : st \in {NoTime, 20} }
  \cup { WithMeta([Blank EXCEPT !.action = "health"]) }

CalendarRequests ==
  MalformedRequests \cup CalendarPlainRequests \cup CalendarListRequests
    \cup CalendarCreateRequests \cup CalendarUpdateRequests
    \cup CalendarIdRequests \cup CalendarMetaRequests

\* actions the notes adapter sends to an endpoint (after normalizeAction)
NotesEndpoints ==
  { "create_note", "edit_note", "set_note", "upload_prepare", "upload_url" }

\* no action is rejected by name
NotesRejected_None == {}

\* actions the notes adapter names and rejects
NotesRejected == { "append_doc", "read_doc", "search", "list_spaces" }

MaxLines == 2
MaxSources == 2

\* the keys of a payload that name the note body
BodyKeys == {"body", "noteAtom", "note_atom", "paragraphs", "text"}

\* payloads that name the note body in up to MaxSources ways
NoteBodies ==
  { n \in { [NoNote EXCEPT !.body = b, !.noteAtom = na, !.note_atom = nb,
                            !.paragraphs = ps, !.text = t[1], !.lines = t[2]]
              : b \in {NoVal, "record", "string"},
                na \in {NoVal, "record", "null"},
                nb \in {NoVal, "record"}, ps \in {NoVal, "array"},
                t \in {<<NoVal, 0>>, <<"blank", 1>>}
                        \cup { <<"text", k>> : k \in 1..MaxLines } }
      : Cardinality({ key \in BodyKeys : n[key] # NoVal }) <= MaxSources }

\* payloads with a request key
NoteRawRequests ==
  { [NoNote EXCEPT !.request = rq, !.text = t[1], !.lines = t[2]]
      : rq \in {"record", "string"}, t \in {<<NoVal, 0>>, <<"text", 1>>} }

NoteRequests ==
  { [Blank EXCEPT !.action = "create_note", !.apiKey = TRUE, !.note = n]
      : n \in NoteBodies \cup NoteRawRequests }
  \cup
  { [Blank EXCEPT !.action = "edit_note", !.apiKey = TRUE, !.id = i, !.note = n]
      : i \in {NoVal, "s42", "n42"},
        n \in NoteRawRequests
               \cup { [NoNote EXCEPT !.text = "text", !.lines = 1],
                      [NoNote EXCEPT !.noteAtom = "null", !.note_atom = "record"],
                      [NoNote EXCEPT !.body = "record", !.paragraphs = "array"] } }

\* apiKey: an API key is configured; body: the payload passes the request
\* builder of the action, whatever it holds; note: the payload as the note
\* request builders read it
NotesMetaRequests ==
  { WithMeta([Blank EXCEPT !.action = a, !.apiKey = TRUE, !.body = b])
      : a \in {"create_note", "upload_url", "read_doc"}, b \in BOOLEAN }

NotesRequests ==
  MalformedRequests \cup NoteRequests \cup NotesMetaRequests
  \cup { [Blank EXCEPT !.action = a, !.apiKey = k, !.body = b]
           : a \in {"health", "create_note", "create_doc", "edit_note",
                    "upload_url", "append_doc", "read_doc", "frobnicate"},
             k \in BOOLEAN, b \in BOOLEAN }
  \cup { [Blank EXCEPT !.action = a, !.apiKey = k]
           : a \in {"search", "list_spaces"}, k \in BOOLEAN }
  \cup { [Blank EXCEPT !.action = a, !.domain = d, !.apiKey = TRUE, !.body = TRUE]
           : a \in {NoVal, "health", "create_note"},
             d \in {NoVal, "mowen", "mail", "notes"} }
  \cup { [Blank EXCEPT !.action = a, !.envKey = "K1", !.apiKey = TRUE, !.body = TRUE]
           : a \in {"create_doc", "update_doc", "set_doc"} }

RequestsOf(prog) ==
  CASE prog = "mail" -> MailRequests
    [] prog = "calendar" -> CalendarRequests
    [] prog = "notes" -> NotesRequests
    [] OTHER -> {}

\* --------------------------------------------------- /ops command line
\* The tokens shellSplit gives parseArgs, by their form: a bare word, --key,
\* or --key=value.
MaxTokens == 3
Word(w) == [dash |-> FALSE, key |-> NoVal, eq |-> FALSE, text |-> w]
Flag(k) == [dash |-> TRUE, key |-> k, eq |-> FALSE, text |-> NoVal]
FlagEq(k, v) == [dash |-> TRUE, key |-> k, eq |-> TRUE, text |-> v]

\* the flag names the handlers look up
FlagKeys ==
  { "confirm", "yes", "execute", "dry-run", "dry", "purge", "folder",
    "junk-folder", "id", "event-id", "uid", "private", "public" }

\* flags[key] === true
BareTrue == "(true)"
NoFlags == [k \in FlagKeys |-> NoVal]

\* parseArgs, from token i on
RECURSIVE ParseFrom(_, _, _, _)
ParseFrom(tokens, i, positionals, flags) ==
  IF i > Len(tokens) THEN [positionals |-> positionals, flags |-> flags]
  ELSE
    LET token == tokens[i] IN
    IF ~token.dash
      THEN ParseFrom(tokens, i + 1, Append(positionals, token.text), flags)
    ELSE IF token.key = ""
      THEN ParseFrom(tokens, i + 1, positionals, flags)
    ELSE IF token.eq
      THEN ParseFrom(tokens, i + 1, positionals,
                     [flags EXCEPT ![token.key] = token.text])
    ELSE IF i < Len(tokens) /\ ~tokens[i + 1].dash
      THEN ParseFrom(tokens, i + 2, positionals,
                     [flags EXCEPT ![token.key] = tokens[i + 1].text])
    ELSE ParseFrom(tokens, i + 1, positionals,
                   [flags EXCEPT ![token.key] = BareTrue])

\* parseArgs(input)
ParseArgs(tokens) == ParseFrom(tokens, 1, << >>, NoFlags)

\* hasFlag(parsed, ...keys)
HasFlag(parsed, keys) == \E k \in keys : parsed.flags[k] = BareTrue

\* readFlagString(parsed, ...keys): the first key that holds a non-empty string
RECURSIVE ReadFlagString(_, _)
ReadFlagString(parsed, keys) ==
  IF keys = << >> THEN NoVal
  ELSE IF parsed.flags[Head(keys)] \notin {NoVal, BareTrue, ""}
    THEN parsed.flags[Head(keys)]
  ELSE ReadFlagString(parsed, Tail(keys))

\* parsed.positionals[i] ?? fallback  (i counted from 0)
Positional(parsed, i, fallback) ==
  IF i + 1 <= Len(parsed.positionals) THEN parsed.positionals[i + 1] ELSE fallback

\* the sequences over a set of tokens, up to a length
RECURSIVE TokenSeqs(_, _)
TokenSeqs(S, n) ==
  IF n = 0 THEN { << >> }
  ELSE LET shorter == TokenSeqs(S, n - 1)
       IN shorter \cup { Append(q, t) : q \in shorter, t \in S }

\* what may follow "/ops mail junk"
JunkTokens ==
  { Word("clear"), Word("list"), Flag("confirm"), Flag("dry-run"),
    FlagEq("dry-run", "true"), Flag("purge"), FlagEq("folder", "Junk") }

\* what may follow "/ops calendar delete"
CalendarDeleteTokens ==
  { Flag("id"), Word("e1"), FlagEq("id", "e1"), Flag("confirm"),
    FlagEq("confirm", "true") }

\* what may follow "/ops mowen post" and "/ops mowen edit"
MowenTokens ==
  { Word("doc"), Word("public"), Flag("private"), Flag("dry-run"),
    FlagEq("dry-run", "true") }

\* the command lines of /ops mail junk, /ops calendar delete and /ops mowen
CommandLines ==
  { << Word("mowen"), Word(sub) >> \o t
      : sub \in {"post", "edit"}, t \in TokenSeqs(MowenTokens, MaxTokens) }
  \cup
  { << Word("mail"), Word("junk") >> \o t : t \in TokenSeqs(JunkTokens, MaxTokens) }
  \cup
  { << Word("calendar"), Word("delete") >> \o t
      : t \in TokenSeqs(CalendarDeleteTokens, MaxTokens) }

\* what the adapters answer the command layer: the accounts of list_accounts
AccountLists == { << >>, << "personal" >>, << "personal", "work" >> }

\* an adapter call the command layer issued
Issued(domain, action, account, folder) ==
  [domain |-> domain, action |-> action, account |-> account, folder |-> folder]

\* ------------------------------------------------------------- pure helpers
\* isRecord(envelope)
IsObject(r) == r.stdin = "object"

\* readString(envelope.action): undefined when missing, not a string or blank
ReadAction(r) == r.action

\* a digest that maps every content to the same value
Sha256Hex_Collides(content) == "h0"

\* sha256Hex: injective on the modelled contents
Sha256Hex(content) ==
  CASE content = "M1" -> "h1"
    [] content = "M2" -> "h2"
    [] content = "T1" -> "h3"
    [] OTHER -> "h0"

Hashes == {"h0", "h1", "h2", "h3"}

EnvAccount == NoVal

\* the account falls back to one kept for the calling tool that meta names
SettingsAccount_Meta(r) ==
  IF r.account # NoVal THEN r.account
  ELSE IF r.meta # NoVal THEN "work" ELSE EnvAccount

\* resolveAdapterSettings(envelope).account
SettingsAccount(r) == IF r.account # NoVal THEN r.account ELSE EnvAccount

\* handleSendMessage locals
SendTemplate(r) == r.template
SendRawMessage(r) == r.rawMessage
UseTemplate(r) == r.template # NoVal \/ r.formatMml
SendContent(r) == IF r.template # NoVal THEN r.template ELSE r.rawMessage
SendContentHash(r) == Sha256Hex(SendContent(r))
SendMode(r) == IF UseTemplate(r) THEN "template" ELSE "raw-message"
SendIdempotencyKey(r) == IF r.envKey # NoVal THEN r.envKey ELSE r.payKey

\* buildIdempotencyEntryKey: `${account || "default"}::${mode}::${idempotencyKey}`
BuildIdempotencyEntryKey(account, mode, key) ==
  << IF account = NoVal THEN "default" ELSE account, mode, key >>

SendEntryKey(r) ==
  BuildIdempotencyEntryKey(SettingsAccount(r), SendMode(r), SendIdempotencyKey(r))

EntryKeys ==
  ({"default"} \cup Accounts) \X {"raw-message", "template"} \X Keys

EmptyStore == [ek \in EntryKeys |-> NoVal]

\* what a keyed send_message request asks for, as the caller sees it: account,
\* template or raw mode, idempotency key and the content to send
SendId(r) == << SettingsAccount(r), UseTemplate(r), SendIdempotencyKey(r), SendContent(r) >>
SendIds == ({NoVal} \cup Accounts) \X BOOLEAN \X Keys \X Contents

\* normalizeIdList(payload.ids, payload.id).length > 0
HasIds(r) == r.ids \/ r.id # NoVal

\* readString(payload.id): a number is not a string
ReadStringId(r) == IF r.id = "s42" THEN r.id ELSE NoVal

\* health is treated as one more name of create_note
NormalizeAction_Health(action) ==
  CASE action \in {"create_doc", "health"} -> "create_note"
    [] action = "update_doc" -> "edit_note"
    [] action = "set_doc" -> "set_note"
    [] OTHER -> action

\* normalizeAction of the notes adapter
NormalizeAction(action) ==
  CASE action = "create_doc" -> "create_note"
    [] action = "update_doc" -> "edit_note"
    [] action = "set_doc" -> "set_note"
    [] OTHER -> action

\* unsupportedActionMessage of the notes adapter
UnsupportedActionMessage(action) ==
  CASE action = "append_doc" -> "append_doc is not supported by Mowen OpenAPI directly"
    [] action \in {"read_doc", "search", "list_spaces"} ->
         "not available in the current Mowen OpenAPI docs"
    [] OTHER -> "unsupported action"

\* resolveEndpointAndRequest(...).rateLimitKey
RateLimitKeys == {"note.write", "upload.write"}
\* every action shares one key
RateLimitKey_Single(mapped) == "note.write"

RateLimitKey(mapped) ==
  IF mapped \in {"upload_prepare", "upload_url"} THEN "upload.write" ELSE "note.write"

\* the limiter never waits
WaitMs_None(clock, lastTs) == 0

\* applyRateLimit: waitMs = max(0, minIntervalMs - (now - lastTs))
WaitMs(clock, lastTs) ==
  IF MinIntervalTicks - (clock - lastTs) > 0
    THEN MinIntervalTicks - (clock - lastTs) ELSE 0

\* ------------------------------------------------------ note request body
\* pick(obj, keys): the value of the first key the object has, whatever it is
RECURSIVE Pick(_, _)
Pick(obj, keys) ==
  IF keys = << >> THEN NoVal
  ELSE IF obj[Head(keys)] # NoVal THEN obj[Head(keys)]
  ELSE Pick(obj, Tail(keys))

\* the key pick took the value from
RECURSIVE PickedKey(_, _)
PickedKey(obj, keys) ==
  IF keys = << >> THEN NoVal
  ELSE IF obj[Head(keys)] # NoVal THEN Head(keys)
  ELSE PickedKey(obj, Tail(keys))

\* A request body by the payload key it was taken or built from, and the
\* number of blocks of its body.content (request.summary.bodyBlocks); NoBody
\* is undefined.  A NoteAtom given as an object has one block here.
NoBody == [from |-> NoVal, blocks |-> 0]
Doc(from, blocks) == [from |-> from, blocks |-> blocks]
ParagraphsLen == 2

\* buildNoteAtomFromText: one paragraph per line of the text
BuildNoteAtomFromText(note) == Doc("text", note.lines)

\* buildNoteAtomFromParagraphs: undefined unless the value is an array
BuildNoteAtomFromParagraphs(note) ==
  IF Pick(note, <<"paragraphs">>) = "array"
    THEN Doc("paragraphs", ParagraphsLen) ELSE NoBody

\* the flat text is read before the paragraphs
ReadNoteAtomBody_TextFirst(note) ==
  IF Pick(note, <<"body">>) = "record" THEN Doc("body", 1)
  ELSE IF Pick(note, <<"noteAtom", "note_atom">>) = "record"
    THEN Doc(PickedKey(note, <<"noteAtom", "note_atom">>), 1)
  ELSE IF Pick(note, <<"text">>) = "text" THEN BuildNoteAtomFromText(note)
  ELSE BuildNoteAtomFromParagraphs(note)

\* readNoteAtomBody; readStringFromKeys gives the trimmed text, undefined
\* when nothing is left of it
ReadNoteAtomBody(note) ==
  IF Pick(note, <<"body">>) = "record" THEN Doc("body", 1)
  ELSE IF Pick(note, <<"noteAtom", "note_atom">>) = "record"
    THEN Doc(PickedKey(note, <<"noteAtom", "note_atom">>), 1)
  ELSE IF BuildNoteAtomFromParagraphs(note) # NoBody
    THEN BuildNoteAtomFromParagraphs(note)
  ELSE IF Pick(note, <<"text">>) = "text" THEN BuildNoteAtomFromText(note)
  ELSE NoBody

\* buildCreateNoteRequest; NoBody stands for its throw
BuildCreateNoteRequest(r) ==
  IF Pick(r.note, <<"request">>) = "record" THEN Doc("request", 0)
  ELSE ReadNoteAtomBody(r.note)

\* readNoteId: the id has to be a string
ReadNoteId(r) == IF r.id = "s42" THEN r.id ELSE NoVal

\* buildEditNoteRequest; NoBody stands for its throws
BuildEditNoteRequest(r) ==
  IF Pick(r.note, <<"request">>) = "record" THEN Doc("request", 0)
  ELSE IF ReadNoteId(r) = NoVal THEN NoBody
  ELSE ReadNoteAtomBody(r.note)

\* resolveEndpointAndRequest: the request body of an endpoint action
RequestBody(r) ==
  LET mapped == NormalizeAction(ReadAction(r)) IN
  IF r.body THEN Doc("payload", 1)
  ELSE IF mapped = "create_note" THEN BuildCreateNoteRequest(r)
  ELSE IF mapped = "edit_note" THEN BuildEditNoteRequest(r)
  ELSE NoBody

\* ------------------------------------------------------- response JSON
\* The JSON of an API response by the places a note id is looked for.  A
\* value is NoVal (no such key), "null" (a value that is no string), ""
\* (an empty string) or the id, a string.  A container that is missing or
\* no object has no key.
IdKeys == << "noteId", "note_id", "id" >>
NoIds == [noteId |-> NoVal, note_id |-> NoVal, id |-> NoVal]
NoContainer == [noteId |-> NoVal, note_id |-> NoVal, id |-> NoVal, note |-> NoIds]
NoJson ==
  [ noteId |-> NoVal, note_id |-> NoVal, id |-> NoVal,
    data |-> NoContainer, result |-> NoContainer, note |-> NoContainer ]

\* bodies the API may answer with
ResponseJsons ==
  { NoJson,
    [NoJson EXCEPT !.noteId = "a"],
    [NoJson EXCEPT !.id = "a", !.data.noteId = "b"],
    [NoJson EXCEPT !.note_id = "null", !.id = "a"],
    [NoJson EXCEPT !.noteId = "", !.data.id = "b"],
    [NoJson EXCEPT !.data.note_id = "b", !.result.id = "c"],
    [NoJson EXCEPT !.data.noteId = "null", !.data.id = "b"],
    [NoJson EXCEPT !.result.id = "", !.note.noteId = "c"],
    [NoJson EXCEPT !.data.note.id = "d"] }

\* readString: a string with something left after trim
ReadString(value) == IF value \in {NoVal, "null", ""} THEN NoVal ELSE value

ReadStringFromKeys(obj, keys) == ReadString(Pick(obj, keys))

\* the loop of extractNoteIdFromResponseJson over the containers
RECURSIVE NestedNoteId(_, _)
NestedNoteId(json, containers) ==
  IF containers = << >> THEN NoVal
  ELSE LET nested == json[Head(containers)] IN
       IF ReadStringFromKeys(nested, IdKeys) # NoVal
         THEN ReadStringFromKeys(nested, IdKeys)
       ELSE IF ReadStringFromKeys(nested.note, IdKeys) # NoVal
         THEN ReadStringFromKeys(nested.note, IdKeys)
       ELSE NestedNoteId(json, Tail(containers))

ExtractNoteIdFromResponseJson(json) ==
  IF ReadStringFromKeys(json, IdKeys) # NoVal
    THEN ReadStringFromKeys(json, IdKeys)
    ELSE NestedNoteId(json, << "data", "result", "note" >>)

\* ---------------------------------------------------------------- envelopes
\* data.calendarCount / data.count of a response that lists no calendars
NoCount == -1
MaxCalendars == 1

\* how many calendars the Calendar application has when the script runs: an
\* event is in a calendar
CalendarCounts(evs) ==
  IF evs = NoEvents THEN 0..MaxCalendars ELSE 1..MaxCalendars

\* data.deleted of a response that reports no deletion
NoDeleted == [id |-> NoVal, title |-> NoVal]

Envelope(ok, domain, action, error) ==
  [ ok |-> ok, domain |-> domain, action |-> action, error |-> error,
    duplicate |-> FALSE, conflict |-> FALSE, supported |-> FALSE,
    items |-> {}, deleted |-> NoDeleted, request |-> NoBody,
    noteId |-> NoVal, json |-> NoJson, calendarCount |-> NoCount ]

\* runMowenAdapter's result when the adapter printed nothing that parses
NoRun ==
  [ ok |-> FALSE, code |-> NoExit, parsed |-> FALSE,
    json |-> Envelope(FALSE, NoVal, NoVal, NoVal) ]

\* envelopeOkResponse / envelopeErrorResponse of the mail adapter
MailOk(r) == Envelope(TRUE, "mail", ReadAction(r), NoVal)
MailErr(r, error) == Envelope(FALSE, "mail", ReadAction(r), error)

\* -------------------------------------------------------------------- state
VARIABLES
  program,    \* which adapter executable this history invokes
  started,    \* number of invocations started so far
  pc,         \* per process: idle, reading, parsed, dispatched, running, exited
  req,        \* per process: the stdin it was given
  out,        \* per process: the envelopes written to stdout
  exit,       \* per process: the exit code (NoExit while it runs)
  trail,      \* per process: the phases it went through
  calls,      \* per process: backend calls it issued (sequence of names)
  child,      \* per process: none, running, killed  (the spawned backend)
  snap,       \* per process: idempotencyMeta.store read by handleSendMessage
  ver,        \* per process: exit code of `himalaya --version` (handleHealth)
  results,    \* per process: how each backend call it issued ended
  rlsnap,     \* per process: lastByKey as applyRateLimit read it
  wake,       \* per process: the clock value at which its sleep ends
  now,        \* Date.now(), in ticks
  lastByKey,  \* rate-limit.json: rate limit key -> time of the last call
  written,    \* history: the keyed notes requests the API answered with 2xx
  events,     \* the Calendar application's events: uid -> event
  store,      \* the idempotency JSON file: entry key -> contentHash
  sendsFor,   \* history: backend sends issued for keyed requests, per SendId
  okSends,    \* history: those the backend accepted (exit 0), per SendId
  cmdline,    \* /ops: the tokens of the command line
  opc,        \* /ops: where the command handler stands
  issued,     \* /ops: the adapter calls the handler issued, in order
  todo,       \* /ops mail junk: the accounts still to be gone through
  writeRes,   \* /ops mowen: what runMowenAdapter returned for the write action
  junkFolder, \* /ops mail junk: the junk folder of the account at hand
  listed      \* /ops mail junk: how many messages list_messages returned

procVars == << pc, req, out, exit, trail, calls, child, snap, ver, results,
              rlsnap, wake >>
\* what Start, ReadStdin and Validate leave alone
backendVars == << calls, child, snap, ver, results, rlsnap, wake, now,
                 lastByKey, written, events, store, sendsFor, okSends >>
\* the notes adapter's state, which mail and calendar never touch
notesVars == << rlsnap, wake, now, lastByKey, written >>
\* the mail adapter's state, which calendar and notes never touch
mailVars == << snap, ver, store, sendsFor, okSends >>
\* the command layer's state, which the adapters never touch
opsVars == << cmdline, opc, issued, todo, junkFolder, listed, writeRes >>
vars == << program, started, pc, req, out, exit, trail, calls, child, snap,
           ver, results, rlsnap, wake, now, lastByKey, written, events, store,
           sendsFor, okSends, cmdline, opc, issued, todo, junkFolder, listed,
           writeRes >>

Init ==
  /\ program \in Programs
  /\ started = 0
  /\ pc = [p \in Procs |-> "idle"]
  /\ req = [p \in Procs |-> Blank]
  /\ out = [p \in Procs |-> << >>]
  /\ exit = [p \in Procs |-> NoExit]
  /\ trail = [p \in Procs |-> << >>]
  /\ calls = [p \in Procs |-> << >>]
  /\ child = [p \in Procs |-> "none"]
  /\ snap = [p \in Procs |-> EmptyStore]
  /\ ver = [p \in Procs |-> NoExit]
  /\ results = [p \in Procs |-> << >>]
  /\ rlsnap = [p \in Procs |-> [k \in RateLimitKeys |-> 0]]
  /\ wake = [p \in Procs |-> 0]
  /\ now = MinIntervalTicks
  /\ lastByKey = [k \in RateLimitKeys |-> 0]
  /\ written = {}
  /\ events = NoEvents
  /\ store = EmptyStore
  /\ sendsFor = [x \in SendIds |-> 0]
  /\ okSends = [x \in SendIds |-> 0]
  /\ cmdline \in IF program = "ops" THEN CommandLines ELSE { << >> }
  /\ opc = IF program = "ops" THEN "start" ELSE "done"
  /\ issued = << >>
  /\ todo = << >>
  /\ junkFolder = NoVal
  /\ listed = 0
  /\ writeRes = NoRun

\* the response is written twice before the process exits
Respond_Twice(p, code, body) ==
  /\ out' = [out EXCEPT ![p] = Append(Append(@, body), body)]
  /\ exit' = [exit EXCEPT ![p] = code]
  /\ pc' = [pc EXCEPT ![p] = "exited"]
  /\ trail' = [trail EXCEPT ![p] = Append(@, "responded")]

\* writeJson(body); process.exit(code)
Respond(p, code, body) ==
  /\ out' = [out EXCEPT ![p] = Append(@, body)]
  /\ exit' = [exit EXCEPT ![p] = code]
  /\ pc' = [pc EXCEPT ![p] = "exited"]
  /\ trail' = [trail EXCEPT ![p] = Append(@, "responded")]

\* the calling layer spawns the adapter and writes one request to its stdin
Start(p) ==
  /\ started < MaxInvocations
  /\ \A q \in Procs : pc[q] = "idle"
  /\ \E r \in RequestsOf(program) :
       /\ ReadAction(r) = "create_event" => HasRoom(events)
       /\ req' = [req EXCEPT ![p] = r]
  /\ started' = started + 1
  /\ pc' = [pc EXCEPT ![p] = "reading"]
  /\ trail' = [trail EXCEPT ![p] = << "reading" >>]
  /\ UNCHANGED << program, opsVars, out, exit, backendVars >>

\* the calling layer collects the output and the exit code of a finished process
Reap(p) ==
  /\ pc[p] = "exited"
  /\ pc' = [pc EXCEPT ![p] = "idle"]
  /\ req' = [req EXCEPT ![p] = Blank]
  /\ out' = [out EXCEPT ![p] = << >>]
  /\ exit' = [exit EXCEPT ![p] = NoExit]
  /\ trail' = [trail EXCEPT ![p] = << >>]
  /\ calls' = [calls EXCEPT ![p] = << >>]
  /\ child' = [child EXCEPT ![p] = "none"]
  /\ snap' = [snap EXCEPT ![p] = EmptyStore]
  /\ ver' = [ver EXCEPT ![p] = NoExit]
  /\ results' = [results EXCEPT ![p] = << >>]
  /\ rlsnap' = [rlsnap EXCEPT ![p] = [k \in RateLimitKeys |-> 0]]
  /\ wake' = [wake EXCEPT ![p] = 0]
  /\ UNCHANGED << program, opsVars, started, now, lastByKey, written, events, store, sendsFor,
                  okSends >>

\* ------------------------------------------------------------ entry point
ValidationExit == 2
BackendFailExit == 3
MailCrashExit == 99
CalendarCrashExit == 1
NotesCrashExit == 2
NotesBackendFailExit == 2

\* errors that escape main() and reach main().catch
Thrown ==
  { "empty stdin; expected JSON envelope", "SyntaxError", "spawn error",
    "invalid payload", "body read failed" }

\* the envelope written by main().catch; the calendar adapter prints the bare
\* message of the error, the other two prefix it
CrashEnvelope(prog, thrown) ==
  CASE prog = "mail" -> Envelope(FALSE, "mail", NoVal, "adapter crash")
    [] prog = "calendar" -> Envelope(FALSE, "calendar", NoVal, thrown)
    [] OTHER -> Envelope(FALSE, "mowen", NoVal, "adapter crashed")

\* the exit code of main().catch
CrashExit(prog) ==
  CASE prog = "mail" -> MailCrashExit
    [] prog = "calendar" -> CalendarCrashExit
    [] OTHER -> NotesCrashExit

\* the exit code an adapter uses when its backend call failed
BackendFailExitOf(prog) ==
  IF prog = "notes" THEN NotesBackendFailExit ELSE BackendFailExit

\* what readJsonStdin throws for this input
StdinError(r) ==
  IF r.stdin = "empty" THEN "empty stdin; expected JSON envelope" ELSE "SyntaxError"

\* readJsonStdin: throws on empty input and on text JSON.parse rejects; the
\* exception leaves main() and is handled by main().catch
ReadStdin(p) ==
  /\ pc[p] = "reading"
  /\ IF req[p].stdin \in {"empty", "garbage"}
       THEN Respond(p, CrashExit(program), CrashEnvelope(program, StdinError(req[p])))
       ELSE /\ pc' = [pc EXCEPT ![p] = "parsed"]
            /\ trail' = [trail EXCEPT ![p] = Append(@, "parsed")]
            /\ UNCHANGED << out, exit >>
  /\ UNCHANGED << program, opsVars, started, req, backendVars >>

\* main(): the checks on the envelope that precede the handler
EnvelopeError(prog, r) ==
  IF ~IsObject(r) THEN
    IF prog = "notes" THEN "envelope must be an object"
                      ELSE "expected JSON object envelope"
  ELSE IF ReadAction(r) = NoVal THEN
    IF prog = "notes" THEN "envelope.action is required"
                      ELSE "envelope.action required"
  ELSE IF prog = "notes" /\ r.domain \notin {NoVal, "mowen"} THEN "unexpected domain"
  ELSE IF prog = "calendar" /\ ReadAction(r) \notin CalendarActions
    THEN "unsupported action"
  ELSE NoVal

\* the envelope main() writes for such an error: the notes adapter writes only
\* ok and error; the calendar adapter's unsupported-action answer carries the
\* action and supportedActions
EnvelopeErrorBody(prog, r) ==
  LET e == EnvelopeError(prog, r) IN
  IF prog = "notes" THEN Envelope(FALSE, NoVal, NoVal, e)
  ELSE IF e = "unsupported action"
    THEN [Envelope(FALSE, prog, ReadAction(r), e) EXCEPT !.supported = TRUE]
  ELSE Envelope(FALSE, prog, NoVal, e)

Validate(p) ==
  /\ pc[p] = "parsed"
  /\ IF EnvelopeError(program, req[p]) # NoVal
       THEN Respond(p, ValidationExit, EnvelopeErrorBody(program, req[p]))
       ELSE /\ pc' = [pc EXCEPT ![p] = "dispatched"]
            /\ trail' = [trail EXCEPT ![p] = Append(@, "dispatched")]
            /\ UNCHANGED << out, exit >>
  /\ UNCHANGED << program, opsVars, started, req, backendVars >>

\* ------------------------------------------------------------ mail router
\* the purge falls back to the configured folder (settings.folder)
PurgeFolder_Default(r) == IF r.folder THEN "given" ELSE "INBOX"

\* handlePurgeFolder: readString(payload.folder) ?? readString(payload.name)
PurgeFolder(r) == IF r.folder THEN "given" ELSE NoVal

\* the payload checks each handler makes before it touches store or backend
MailValidation(r) ==
  LET a == ReadAction(r) IN
  CASE a \in {"get_message", "archive", "delete_messages", "mark_read"} ->
         IF HasIds(r) THEN NoVal ELSE "payload.id or payload.ids required"
    [] a = "draft_reply" ->
         IF ReadStringId(r) # NoVal THEN NoVal ELSE "payload.id required"
    [] a = "purge_folder" ->
         IF PurgeFolder(r) # NoVal THEN NoVal
         ELSE "payload.folder (or payload.name) required"
    [] a = "label" ->
         IF ~HasIds(r) THEN "payload.id or payload.ids required"
         ELSE IF r.mode \notin {NoVal, "add", "remove", "set"}
                THEN "payload.mode must be one of add/remove/set"
         ELSE IF ~r.flags THEN "payload.flags required (string[])"
         ELSE NoVal
    [] a = "send_message" ->
         IF SendRawMessage(r) = NoVal /\ SendTemplate(r) = NoVal
           THEN "payload.rawMessage (or payload.message/raw) or payload.template required"
         ELSE IF r.requireKey /\ SendIdempotencyKey(r) = NoVal
           THEN "idempotencyKey required (payload.requireIdempotencyKey=true)"
         ELSE NoVal
    [] OTHER -> NoVal

\* the himalaya subcommand a handler runs first
MailCommand(r) ==
  LET a == ReadAction(r) IN
  CASE a = "health" -> "--version"
    [] a = "list_accounts" -> "account list"
    [] a = "list_folders" -> "folder list"
    [] a \in {"list_messages", "search"} -> "envelope list"
    [] a = "get_message" -> "message read"
    [] a = "draft_reply" -> "template reply"
    [] a = "send_message" ->
         IF UseTemplate(r) THEN "template send" ELSE "message send"
    [] a = "archive" -> "message move"
    [] a = "delete_messages" -> "message delete"
    [] a = "purge_folder" -> "folder purge"
    [] OTHER -> "flag"

IsSend(r) == IsObject(r) /\ ReadAction(r) = "send_message"
IsKeyedSend(r) ==
  IsSend(r) /\ MailValidation(r) = NoVal /\ SendIdempotencyKey(r) # NoVal

\* dispatch(base) default branch
MailUnsupported(r) ==
  [MailErr(r, "unsupported action") EXCEPT !.supported = TRUE]

\* handleSendMessage: the key exists with another content hash
MailConflict(r) ==
  [MailErr(r, "idempotency key reuse with different payload content")
     EXCEPT !.conflict = TRUE]

\* handleSendMessage: the key exists with this content hash
MailDuplicate(r) == [MailOk(r) EXCEPT !.duplicate = TRUE]

\* a lookup that never finds the entry
ExistingHash_Blind(file, r) == NoVal

\* store.keys[entryKey] as handleSendMessage reads it
ExistingHash(file, r) == file[SendEntryKey(r)]

\* spawn(argv[0], ...) in runCommand
Spawn(p, name) ==
  /\ pc' = [pc EXCEPT ![p] = "running"]
  /\ child' = [child EXCEPT ![p] = "running"]
  /\ calls' = [calls EXCEPT ![p] = Append(@, name)]

\* dispatch(base) up to the handler's first backend call
MailDispatch(p) ==
  LET r == req[p] IN
  /\ program = "mail"
  /\ pc[p] = "dispatched"
  /\ IF ReadAction(r) \notin MailActions THEN
       /\ Respond(p, ValidationExit, MailUnsupported(r))
       /\ UNCHANGED << calls, child, snap, sendsFor >>
     ELSE IF MailValidation(r) # NoVal THEN
       /\ Respond(p, ValidationExit, MailErr(r, MailValidation(r)))
       /\ UNCHANGED << calls, child, snap, sendsFor >>
     ELSE IF IsKeyedSend(r) /\ ExistingHash(store, r) # NoVal THEN
       /\ IF ExistingHash(store, r) # SendContentHash(r)
            THEN Respond(p, ValidationExit, MailConflict(r))
            ELSE Respond(p, 0, MailDuplicate(r))
       /\ UNCHANGED << calls, child, snap, sendsFor >>
     ELSE
       /\ Spawn(p, MailCommand(r))
       /\ snap' = [snap EXCEPT ![p] = IF IsKeyedSend(r) THEN store ELSE @]
       /\ sendsFor' = IF IsKeyedSend(r)
            THEN [sendsFor EXCEPT ![SendId(r)] = @ + 1]
            ELSE sendsFor
       /\ UNCHANGED << out, exit, trail >>
  /\ UNCHANGED << program, opsVars, started, req, ver, results, store, okSends,
                  events, notesVars >>

\* the result runCommand resolves with (err: the promise rejects instead);
\* stdout: what the child printed, as far as the caller looks at it
RunResult(code, killed, err, stdout) ==
  [code |-> code, killed |-> killed, err |-> err, stdout |-> stdout]

\* how a backend call ended, for the record of the invocation
Outcome(res) ==
  IF res.err THEN "spawn_error"
  ELSE IF res.killed THEN "timeout"
  ELSE IF res.code = 0 THEN "exit_zero"
  ELSE "exit_nonzero"

\* the ways a backend call fails
FailedOutcomes ==
  { "spawn_error", "timeout", "exit_nonzero", "http_error", "network_error",
    "body_error" }

\* every close counts as success, whatever the exit code
RunOk_AnyClose(res) == ~res.err

\* runHimalaya: ok = (result.code === 0)
RunOk(res) == ~res.err /\ res.code = 0

\* the deep probe runs whenever payload.deep is set
HealthProbes_Always(r) == r.deep

\* handleHealth: the deep probe runs only with an account or a config path
HealthProbes(r) == r.deep /\ (SettingsAccount(r) # NoVal \/ r.configPath)

\* handleHealth's return value once the version check has run
HealthExit(versionCode) == IF versionCode = 0 THEN 0 ELSE BackendFailExit
HealthBody(r, versionCode) == MailOk(r)

\* the generic tail of the handlers: exitCode and body from result.ok
HandlerExit(res) == IF RunOk(res) THEN 0 ELSE BackendFailExit
HandlerBody(r, res) == IF RunOk(res) THEN MailOk(r) ELSE MailErr(r, "backend failed")

\* the store is written back without the new entry
RecordedStore_Forgets(mine, r) == mine

\* the store handleSendMessage writes after a successful keyed send
RecordedStore(mine, r) ==
  [mine EXCEPT ![SendEntryKey(r)] = SendContentHash(r)]

\* what the mail handler does when its backend call has finished
MailAfterRun(p, res) ==
  LET r == req[p]
      last == calls[p][Len(calls[p])]
  IN
  /\ program = "mail"
  /\ results' = [results EXCEPT ![p] = Append(@, Outcome(res))]
  /\ IF ReadAction(r) = "health" /\ last = "--version" THEN
       IF res.err THEN
         /\ Respond(p, BackendFailExit, MailErr(r, "failed to execute himalaya"))
         /\ child' = [child EXCEPT ![p] = "none"]
         /\ UNCHANGED << calls, ver, store, okSends >>
       ELSE IF HealthProbes(r) THEN
         /\ Spawn(p, "envelope list")
         /\ ver' = [ver EXCEPT ![p] = res.code]
         /\ UNCHANGED << out, exit, trail, store, okSends >>
       ELSE
         /\ Respond(p, HealthExit(res.code), HealthBody(r, res.code))
         /\ child' = [child EXCEPT ![p] = "none"]
         /\ UNCHANGED << calls, ver, store, okSends >>
     ELSE IF res.err THEN
       /\ Respond(p, CrashExit(program), CrashEnvelope(program, "spawn error"))
       /\ child' = [child EXCEPT ![p] = "none"]
       /\ UNCHANGED << calls, ver, store, okSends >>
     ELSE IF ReadAction(r) = "health" THEN
       /\ Respond(p, HealthExit(ver[p]), HealthBody(r, ver[p]))
       /\ child' = [child EXCEPT ![p] = "none"]
       /\ UNCHANGED << calls, ver, store, okSends >>
     ELSE
       /\ Respond(p, HandlerExit(res), HandlerBody(r, res))
       /\ child' = [child EXCEPT ![p] = "none"]
       /\ store' = IF RunOk(res) /\ IsKeyedSend(r)
                     THEN RecordedStore(snap[p], r) ELSE store
       /\ okSends' = IF ~res.err /\ res.code = 0 /\ IsKeyedSend(r)
            THEN [okSends EXCEPT ![SendId(r)] = @ + 1]
            ELSE okSends
       /\ UNCHANGED << calls, ver >>
  /\ UNCHANGED << program, opsVars, started, req, snap, sendsFor, events, notesVars >>

\* ------------------------------------------------------- calendar adapter
\* normalizeDateRange: start defaults to now, end to a week after start
RangeStart(r) == IF r.start # NoTime THEN r.start ELSE r.clock
RangeEnd(r) ==
  IF r.end # NoTime THEN r.end
  ELSE RangeStart(r) + WeekDays * DayHours * HourTicks
RangeError(r) ==
  IF RangeEnd(r) > RangeStart(r) THEN NoVal
  ELSE "payload.end must be later than payload.start"

\* an event is listed only if it lies inside the range
Overlaps_Contained(ev, rangeStart, rangeEnd) ==
  ev.start >= rangeStart /\ ev.end <= rangeEnd

\* listEvents: startMs < range.end && endMs > range.start
Overlaps(ev, rangeStart, rangeEnd) ==
  ev.start < rangeEnd /\ ev.end > rangeStart

\* listEvents: the query is looked up in the title
MatchesQuery(ev, query) == query = NoVal \/ ev.title = query

\* listEvents(...).items, as the set of the listed uids
ListEvents(r, evs) ==
  { id \in EventIds :
      /\ evs[id].present
      /\ Overlaps(evs[id], RangeStart(r), RangeEnd(r))
      /\ MatchesQuery(evs[id], r.query) }

\* findEvent: the event with payload.id, if there is one
FindError(r, evs) ==
  IF r.evId = NoVal THEN "payload.id (or uid/eventId) required"
  ELSE IF r.evId \in EventIds /\ evs[r.evId].present THEN NoVal
  ELSE "event not found"

\* the default end of an event: start plus 1 hour, or plus 24 hours all day
DefaultEnd(start, allDay, tz) ==
  IF start = NoTime THEN NoTime
  ELSE AddHours(tz, start, IF allDay THEN DayHours ELSE 1)

\* the times are stored without comparing them
EnsureEventTimes_Unchecked(start, end, allDay, tz) ==
  [ error |-> IF start = NoTime THEN "payload.start must be a date string"
              ELSE NoVal,
    start |-> start,
    end |-> IF end # NoTime THEN end ELSE DefaultEnd(start, allDay, tz),
    allDay |-> allDay ]

\* ensureEventTimes: the end defaults to the start plus 1 hour, or plus 24
\* hours for an all-day event, and must be later than the start
EnsureEventTimes(start, end, allDay, tz) ==
  LET e == IF end # NoTime THEN end ELSE DefaultEnd(start, allDay, tz)
  IN [ error |-> IF start = NoTime THEN "payload.start must be a date string"
                 ELSE IF ~(e > start) THEN "payload.end must be later than payload.start"
                 ELSE NoVal,
       start |-> start, end |-> e, allDay |-> allDay ]

\* the result of the JXA script: the error it throws, the events it leaves
\* behind and the uids it lists
JxaResult(error, evs, items) ==
  [error |-> error, events |-> evs, items |-> items, deleted |-> NoDeleted]

\* createEvent
CreateEvent(r, evs) ==
  LET times == EnsureEventTimes(r.start, r.end, r.allDay = "yes", r.tz) IN
  IF r.title \in {NoVal, ""} THEN JxaResult("payload.title (or summary) required", evs, {})
  ELSE IF times.error # NoVal THEN JxaResult(times.error, evs, {})
  ELSE JxaResult(NoVal,
         [evs EXCEPT ![FreshId(evs)] =
            [ present |-> TRUE, title |-> r.title, start |-> times.start,
              end |-> times.end, allDay |-> times.allDay ]],
         {})

\* updateEvent: the title is assigned before the times are looked at
UpdateEvent(r, evs) ==
  LET ev == evs[r.evId]
      titled == IF r.title # NoVal THEN [evs EXCEPT ![r.evId].title = r.title] ELSE evs
      times == EnsureEventTimes(
                 IF r.start # NoTime THEN r.start ELSE ev.start,
                 IF r.end # NoTime THEN r.end ELSE ev.end,
                 IF r.allDay # NoVal THEN r.allDay = "yes" ELSE ev.allDay,
                 r.tz)
  IN
  IF FindError(r, evs) # NoVal THEN JxaResult(FindError(r, evs), evs, {})
  ELSE IF r.title = "" THEN JxaResult("payload.title/summary cannot be empty", evs, {})
  ELSE IF r.start = NoTime /\ r.end = NoTime /\ r.allDay = NoVal
    THEN JxaResult(NoVal, titled, {})
  ELSE IF times.error # NoVal THEN JxaResult(times.error, titled, {})
  ELSE JxaResult(NoVal,
         [titled EXCEPT ![r.evId].start = times.start, ![r.evId].end = times.end,
                        ![r.evId].allDay = times.allDay],
         {})

\* the delete is issued without looking the event up
DeleteEvent_Unchecked(r, evs) ==
  [ JxaResult(NoVal, [id \in EventIds |-> IF id = r.evId THEN NoEvent ELSE evs[id]], {})
      EXCEPT !.deleted = [id |-> r.evId, title |-> NoVal] ]

\* deleteEvent: the event is looked up, deleted, and what was found is echoed
DeleteEvent(r, evs) ==
  IF FindError(r, evs) # NoVal THEN JxaResult(FindError(r, evs), evs, {})
  ELSE [ JxaResult(NoVal, [evs EXCEPT ![r.evId] = NoEvent], {})
           EXCEPT !.deleted = [id |-> r.evId, title |-> evs[r.evId].title] ]

\* main() of the JXA script
JxaMain(r, evs) ==
  LET a == ReadAction(r) IN
  CASE a \in {"list_events", "search"} ->
         IF RangeError(r) # NoVal THEN JxaResult(RangeError(r), evs, {})
         ELSE JxaResult(NoVal, evs, ListEvents(r, evs))
    [] a = "get_event" -> JxaResult(FindError(r, evs), evs, {})
    [] a = "create_event" -> CreateEvent(r, evs)
    [] a = "update_event" -> UpdateEvent(r, evs)
    [] a = "delete_event" -> DeleteEvent(r, evs)
    [] OTHER -> JxaResult(NoVal, evs, {})

\* dispatch(base) of the calendar adapter up to runJxaCalendar's spawn
CalendarDispatch(p) ==
  /\ program = "calendar"
  /\ pc[p] = "dispatched"
  /\ Spawn(p, "osascript")
  /\ UNCHANGED << program, opsVars, started, req, out, exit, trail, results, events,
                  mailVars, notesVars >>

\* dispatch(base): ok = !exec.transportError && exec.code === 0 && jxaOk
CalendarOk(res) == ~res.err /\ res.code = 0 /\ res.stdout = "ok"

\* listCalendars, for the actions that call it
ListCalendars(r, count) ==
  IF ReadAction(r) \in {"health", "list_calendars"} THEN count ELSE NoCount

CalendarBody(r, res, run, count) ==
  [ Envelope(CalendarOk(res), "calendar", ReadAction(r),
             IF res.stdout # "error" THEN NoVal
             ELSE IF run.error # NoVal THEN run.error ELSE "jxa error")
      EXCEPT !.items = IF res.stdout = "ok" THEN run.items ELSE {},
             !.deleted = IF res.stdout = "ok" THEN run.deleted ELSE NoDeleted,
             !.calendarCount = IF res.stdout = "ok" THEN ListCalendars(r, count)
                                                    ELSE NoCount ]

\* dispatch(base) of the calendar adapter once runJxaCalendar has settled.
\* The script prints ok only if it ran to its end; when it stops with an
\* error, or osascript is killed or fails, the script may or may not have
\* changed the events by then; when osascript could not be started it has not.
CalendarAfterRun(p, res) ==
  LET run == JxaMain(req[p], events) IN
  /\ program = "calendar"
  /\ res.stdout = "ok" => run.error = NoVal
  /\ \E applied \in BOOLEAN :
       /\ res.stdout = "ok" => applied
       /\ res.err => ~applied
       /\ events' = IF applied THEN run.events ELSE events
  /\ results' = [results EXCEPT ![p] = Append(@, Outcome(res))]
  /\ \E count \in CalendarCounts(events) :
       Respond(p, IF CalendarOk(res) THEN 0 ELSE BackendFailExit,
               CalendarBody(req[p], res, run, count))
  /\ child' = [child EXCEPT ![p] = "none"]
  /\ UNCHANGED << program, opsVars, started, req, calls, mailVars, notesVars >>

AfterRun(p, res) ==
  IF program = "mail" THEN MailAfterRun(p, res) ELSE CalendarAfterRun(p, res)

\* what the caller reads of the child's stdout: himalaya's output is passed
\* through, the JXA script prints {ok:true,...}, {ok:false,error} or, when
\* osascript itself fails, nothing that parses
Stdouts(prog) == IF prog = "calendar" THEN {"ok", "error", "garbage"} ELSE {"none"}

\* --------------------------------------------------------------- runCommand
\* the child exits by itself: close(code, null)
ChildExits(p) ==
  /\ pc[p] = "running"
  /\ child[p] = "running"
  /\ \E code \in {0, 1}, so \in Stdouts(program) :
       AfterRun(p, RunResult(code, FALSE, FALSE, so))

\* the timer never kills the child
TimerFires_Never(p) ==
  /\ FALSE
  /\ UNCHANGED vars

\* the timeout elapses first: child.kill("SIGKILL")
TimerFires(p) ==
  /\ pc[p] = "running"
  /\ child[p] = "running"
  /\ child' = [child EXCEPT ![p] = "killed"]
  /\ UNCHANGED << program, opsVars, started, pc, req, out, exit, trail, calls, results,
                  events, mailVars, notesVars >>

\* the killed child closes: close(null, "SIGKILL"), child.killed = true
ChildKilled(p) ==
  /\ pc[p] = "running"
  /\ child[p] = "killed"
  /\ AfterRun(p, RunResult(NullCode, TRUE, FALSE, "garbage"))

\* the executable cannot be spawned: the "error" event rejects the promise
SpawnFails(p) ==
  /\ pc[p] = "running"
  /\ child[p] = "running"
  /\ AfterRun(p, RunResult(NullCode, FALSE, TRUE, "garbage"))

\* ---------------------------------------------------------- notes adapter
NotesErr(r, error) == Envelope(FALSE, "mowen", ReadAction(r), error)

\* sanitizeForHealth: ok = Boolean(settings.apiKey)
SanitizeForHealth(r) == Envelope(r.apiKey, "mowen", "health", NoVal)

\* the rate limit is acquired without looking for the API key
NotesDispatch_KeyUnchecked(p) ==
  LET r == req[p]
      mapped == NormalizeAction(ReadAction(r))
  IN
  /\ program = "notes"
  /\ pc[p] = "dispatched"
  /\ IF mapped = "health" THEN
       /\ Respond(p, 0, SanitizeForHealth(r))
       /\ UNCHANGED << rlsnap, wake >>
     ELSE IF mapped \in NotesRejected \/ mapped \notin NotesEndpoints THEN
       /\ Respond(p, ValidationExit, NotesErr(r, UnsupportedActionMessage(mapped)))
       /\ UNCHANGED << rlsnap, wake >>
     ELSE IF RequestBody(r) = NoBody THEN
       /\ Respond(p, CrashExit(program), CrashEnvelope(program, "invalid payload"))
       /\ UNCHANGED << rlsnap, wake >>
     ELSE
       /\ pc' = [pc EXCEPT ![p] = "limiting"]
       /\ rlsnap' = [rlsnap EXCEPT ![p] = lastByKey]
       /\ wake' = [wake EXCEPT ![p] = now + WaitMs(now, lastByKey[RateLimitKey(mapped)])]
       /\ UNCHANGED << out, exit, trail >>
  /\ UNCHANGED << program, opsVars, started, req, calls, child, results, now, lastByKey, written,
                  events, mailVars >>

\* main() of the notes adapter from normalizeAction to applyRateLimit's read
\* of rate-limit.json; the request builders run inside
\* resolveEndpointAndRequest and what they throw leaves main()
NotesDispatch(p) ==
  LET r == req[p]
      mapped == NormalizeAction(ReadAction(r))
  IN
  /\ program = "notes"
  /\ pc[p] = "dispatched"
  /\ IF mapped = "health" THEN
       /\ Respond(p, 0, SanitizeForHealth(r))
       /\ UNCHANGED << rlsnap, wake >>
     ELSE IF mapped \in NotesRejected THEN
       /\ Respond(p, ValidationExit, NotesErr(r, UnsupportedActionMessage(mapped)))
       /\ UNCHANGED << rlsnap, wake >>
     ELSE IF ~r.apiKey THEN
       /\ Respond(p, ValidationExit, NotesErr(r, "Missing API key"))
       /\ UNCHANGED << rlsnap, wake >>
     ELSE IF mapped \in NotesEndpoints /\ RequestBody(r) = NoBody THEN
       /\ Respond(p, CrashExit(program), CrashEnvelope(program, "invalid payload"))
       /\ UNCHANGED << rlsnap, wake >>
     ELSE IF mapped \notin NotesEndpoints THEN
       /\ Respond(p, ValidationExit, NotesErr(r, UnsupportedActionMessage(mapped)))
       /\ UNCHANGED << rlsnap, wake >>
     ELSE
       /\ pc' = [pc EXCEPT ![p] = "limiting"]
       /\ rlsnap' = [rlsnap EXCEPT ![p] = lastByKey]
       /\ wake' = [wake EXCEPT ![p] = now + WaitMs(now, lastByKey[RateLimitKey(mapped)])]
       /\ UNCHANGED << out, exit, trail >>
  /\ UNCHANGED << program, opsVars, started, req, calls, child, results, now, lastByKey, written,
                  events, mailVars >>

\* the file is written anew with the timestamp of the key alone
RateLimitPasses_Fresh(p) ==
  LET key == RateLimitKey(NormalizeAction(ReadAction(req[p]))) IN
  /\ program = "notes"
  /\ pc[p] = "limiting"
  /\ now >= wake[p]
  /\ lastByKey' = [k \in RateLimitKeys |-> IF k = key THEN now ELSE 0]
  /\ pc' = [pc EXCEPT ![p] = "fetching"]
  /\ calls' = [calls EXCEPT ![p] = Append(@, "fetch")]
  /\ UNCHANGED << program, opsVars, started, req, out, exit, trail, child,
                  results, rlsnap, wake, now, written, events, mailVars >>

\* applyRateLimit after its sleep: lastByKey[key] = Date.now(), the file is
\* written, and callMowenApi starts the fetch
RateLimitPasses(p) ==
  LET key == RateLimitKey(NormalizeAction(ReadAction(req[p]))) IN
  /\ program = "notes"
  /\ pc[p] = "limiting"
  /\ now >= wake[p]
  /\ lastByKey' = [rlsnap[p] EXCEPT ![key] = now]
  /\ pc' = [pc EXCEPT ![p] = "fetching"]
  /\ calls' = [calls EXCEPT ![p] = Append(@, "fetch")]
  /\ UNCHANGED << program, opsVars, started, req, out, exit, trail, child,
                  results, rlsnap, wake, now, written, events, mailVars >>

\* buildApiResult: ok = response.ok
NotesApiResult(r, httpOk, json) ==
  [ Envelope(httpOk, "mowen", ReadAction(r), NoVal)
      EXCEPT !.request = RequestBody(r),
             !.noteId = ExtractNoteIdFromResponseJson(json),
             !.json = json ]

\* fetch resolves with a response: main() answers with response.ok, unless
\* reading the body throws
FetchResponds(p) ==
  /\ program = "notes"
  /\ pc[p] = "fetching"
  /\ \E kind \in {"http_2xx", "http_error", "body_error"},
        json \in ResponseJsons :
       /\ results' = [results EXCEPT ![p] = Append(@, kind)]
       /\ IF kind = "body_error"
            THEN Respond(p, CrashExit(program), CrashEnvelope(program, "body read failed"))
            ELSE Respond(p, IF kind = "http_2xx" THEN 0 ELSE NotesBackendFailExit,
                         NotesApiResult(req[p], kind = "http_2xx", json))
       /\ written' = IF kind = "http_2xx" /\ req[p].envKey # NoVal
                       THEN written \cup {req[p]} ELSE written
  /\ UNCHANGED << program, opsVars, started, req, calls, child, rlsnap, wake, now,
                  lastByKey, events, mailVars >>

\* fetch rejects (network failure, or the AbortSignal timeout): the catch in
\* callMowenApi writes the failure and exits
FetchRejects(p) ==
  /\ program = "notes"
  /\ pc[p] = "fetching"
  /\ \E kind \in {"network_error", "timeout"} :
       /\ results' = [results EXCEPT ![p] = Append(@, kind)]
       /\ Respond(p, NotesBackendFailExit,
                  Envelope(FALSE, "mowen", NoVal,
                           IF kind = "timeout" THEN "request timed out"
                                               ELSE "request failed"))
  /\ UNCHANGED << program, opsVars, started, req, calls, child, rlsnap, wake, now,
                  lastByKey, written, events, mailVars >>

\* time passes: up to MaxClock, and beyond it for as long as some call sleeps
Tick ==
  /\ program = "notes"
  /\ now < MaxClock \/ \E p \in Procs : pc[p] = "limiting" /\ now < wake[p]
  /\ now' = now + 1
  /\ UNCHANGED << program, opsVars, started, procVars, lastByKey, written, events, store,
                  sendsFor, okSends >>

\* ------------------------------------------------------ /ops command layer
\* handleMailJunkCommand: sub, confirm, dryRun, wantPurge
JunkSub(parsed) == Positional(parsed, 2, "list")
Confirm(parsed) == HasFlag(parsed, {"confirm", "yes", "execute"})
DryRun(parsed) ==
  JunkSub(parsed) # "clear" \/ HasFlag(parsed, {"dry-run", "dry"}) \/ ~Confirm(parsed)
WantPurge(parsed) == HasFlag(parsed, {"purge"})

\* the handler is through with an account: the next one, or the reply
NextAccount ==
  /\ todo' = Tail(todo)
  /\ opc' = IF Tail(todo) = << >> THEN "done" ELSE "folder"
  /\ junkFolder' = NoVal
  /\ listed' = 0

\* handleMailCommand / handleCalendarCommand up to the first adapter call
OpsRoute ==
  LET parsed == ParseArgs(cmdline) IN
  /\ program = "ops"
  /\ opc = "start"
  /\ Positional(parsed, 0, NoVal) # "mowen"
  /\ IF Positional(parsed, 0, NoVal) = "mail" THEN
       IF JunkSub(parsed) \notin {"list", "clear", "clean"}
         THEN opc' = "done" /\ UNCHANGED issued
         ELSE /\ opc' = "accounts"
              /\ issued' = Append(issued, Issued("mail", "list_accounts", NoVal, NoVal))
     ELSE
       IF ReadFlagString(parsed, << "id", "event-id", "uid" >>) = NoVal
         THEN opc' = "done" /\ UNCHANGED issued
         ELSE /\ opc' = "preview"
              /\ issued' = Append(issued, Issued("calendar", "get_event", NoVal, NoVal))
  /\ UNCHANGED << program, started, procVars, now, lastByKey, written, events, store,
                  sendsFor, okSends, writeRes, cmdline, todo, junkFolder, listed >>

\* handleMailJunkCommand: fetchMailAccounts has returned
OpsAccounts ==
  /\ program = "ops"
  /\ opc = "accounts"
  /\ \E ok \in BOOLEAN, accounts \in AccountLists :
       IF ok /\ accounts # << >>
         THEN todo' = accounts /\ opc' = "folder"
         ELSE todo' = todo /\ opc' = "done"
  /\ UNCHANGED << program, started, procVars, now, lastByKey, written, events, store,
                  sendsFor, okSends, writeRes, cmdline, issued, junkFolder, listed >>

\* resolveJunkFolderForAccount: the folder of --folder, or the one picked
\* from list_folders
OpsResolveFolder ==
  LET parsed == ParseArgs(cmdline)
      explicitFolder == ReadFlagString(parsed, << "folder", "junk-folder" >>)
  IN
  /\ program = "ops"
  /\ opc = "folder"
  /\ IF explicitFolder # NoVal THEN
       /\ junkFolder' = explicitFolder
       /\ opc' = "list"
       /\ UNCHANGED << issued, todo, listed >>
     ELSE
       /\ issued' = Append(issued, Issued("mail", "list_folders", Head(todo), NoVal))
       /\ \E found \in BOOLEAN :
            IF found
              THEN junkFolder' = "Junk" /\ opc' = "list" /\ UNCHANGED << todo, listed >>
              ELSE NextAccount
  /\ UNCHANGED << program, started, procVars, now, lastByKey, written, events, store,
                  sendsFor, okSends, writeRes, cmdline >>

\* handleMailJunkCommand: list_messages of the junk folder
OpsListMessages ==
  LET parsed == ParseArgs(cmdline) IN
  /\ program = "ops"
  /\ opc = "list"
  /\ issued' = Append(issued, Issued("mail", "list_messages", Head(todo), junkFolder))
  /\ \E ok \in BOOLEAN, n \in {0, 1} :
       IF ~ok \/ JunkSub(parsed) = "list" \/ DryRun(parsed) \/ n = 0
         THEN NextAccount
         ELSE listed' = n /\ opc' = "act" /\ UNCHANGED << todo, junkFolder >>
  /\ UNCHANGED << program, started, procVars, now, lastByKey, written, events, store,
                  sendsFor, okSends, writeRes, cmdline >>

\* handleMailJunkCommand: purge_folder, or delete_messages of the listed ids
OpsClear ==
  LET parsed == ParseArgs(cmdline) IN
  /\ program = "ops"
  /\ opc = "act"
  /\ issued' = Append(issued,
       Issued("mail", IF WantPurge(parsed) THEN "purge_folder" ELSE "delete_messages",
              Head(todo), junkFolder))
  /\ NextAccount
  /\ UNCHANGED << program, started, procVars, now, lastByKey, written, events, store,
                  sendsFor, okSends, writeRes, cmdline >>

\* handleCalendarDeleteCommand: get_event has returned; whether it found the
\* event or failed, delete_event is issued exactly when --confirm is given
OpsCalendarDelete ==
  LET parsed == ParseArgs(cmdline) IN
  /\ program = "ops"
  /\ opc = "preview"
  /\ opc' = "done"
  /\ issued' = IF HasFlag(parsed, {"confirm"})
                 THEN Append(issued, Issued("calendar", "delete_event", NoVal, NoVal))
                 ELSE issued
  /\ UNCHANGED << program, started, procVars, now, lastByKey, written, events, store,
                  sendsFor, okSends, writeRes, cmdline, todo, junkFolder, listed >>

\* parseVisibility: --private, --public, or the first positional that names
\* one
ParseVisibility(parsed) ==
  LET hits == { i \in 1..Len(parsed.positionals)
                  : parsed.positionals[i] \in {"private", "public"} }
  IN IF HasFlag(parsed, {"private"}) THEN "private"
     ELSE IF HasFlag(parsed, {"public"}) THEN "public"
     ELSE IF hits = {} THEN NoVal
     ELSE parsed.positionals[CHOOSE i \in hits : \A j \in hits : i <= j]

\* handleMowenPostOrEditCommand: sub, noteIdArg, urlArg, dryRun, visibility
MowenSub(parsed) == Positional(parsed, 1, "")
IsEdit(parsed) == MowenSub(parsed) = "edit"
IsPost(parsed) == MowenSub(parsed) \in {"post", "publish"}
NoteIdArg(parsed) == IF IsEdit(parsed) THEN Positional(parsed, 2, NoVal) ELSE NoVal
UrlArg(parsed) ==
  IF IsEdit(parsed) THEN Positional(parsed, 3, NoVal) ELSE Positional(parsed, 2, NoVal)
MowenDryRun(parsed) == HasFlag(parsed, {"dry-run", "dry"})
Visibility(parsed) ==
  IF IsPost(parsed) /\ ParseVisibility(parsed) = NoVal THEN "private"
  ELSE ParseVisibility(parsed)
WriteAction(parsed) == IF IsEdit(parsed) THEN "update_doc" ELSE "create_doc"

\* runMowenAdapter: adapterOk = parsedJson?.ok === true || result.code === 0
AdapterOk(parsed, body, code) == (parsed /\ body.ok) \/ code = 0
MowenRun(code, parsed, body) ==
  [ok |-> AdapterOk(parsed, body, code), code |-> code, parsed |-> parsed, json |-> body]

\* what runMowenAdapter may return for an action: the notes adapter answered
\* with the API's response, refused the request, or was killed without output
MowenRuns(action) ==
  LET r == WithMeta([Blank EXCEPT !.action = action, !.apiKey = TRUE, !.body = TRUE])
  IN { MowenRun(0, TRUE, NotesApiResult(r, TRUE, json)) : json \in ResponseJsons }
       \cup { MowenRun(NotesBackendFailExit, TRUE, NotesApiResult(r, FALSE, NoJson)),
              MowenRun(ValidationExit, TRUE, NotesErr(r, "Missing API key")),
              NoRun }

\* pickId of extractMowenNoteId: the first of noteId, note_id, id that is a
\* string with something left after trim
PickId(obj) ==
  IF obj.noteId \notin {NoVal, "null", ""} THEN obj.noteId
  ELSE IF obj.note_id \notin {NoVal, "null", ""} THEN obj.note_id
  ELSE IF obj.id \notin {NoVal, "null", ""} THEN obj.id
  ELSE NoVal

\* a ?? b ?? ...
RECURSIVE FirstDefined(_)
FirstDefined(values) ==
  IF values = << >> THEN NoVal
  ELSE IF Head(values) # NoVal THEN Head(values)
  ELSE FirstDefined(Tail(values))

\* extractMowenNoteId: the adapter's own noteId, then the API's response
ExtractMowenNoteId(res) ==
  LET root == res.json.json IN
  IF ~res.parsed THEN NoVal
  ELSE IF PickId([NoIds EXCEPT !.noteId = res.json.noteId]) # NoVal
    THEN PickId([NoIds EXCEPT !.noteId = res.json.noteId])
  ELSE FirstDefined(<< PickId(root), PickId(root.data), PickId(root.result),
                       PickId(root.note), PickId(root.data.note) >>)

\* handleMowenPostOrEditCommand up to the answer of the write action; the
\* Feishu document is fetched first, which may fail
OpsMowenWrite ==
  LET parsed == ParseArgs(cmdline) IN
  /\ program = "ops"
  /\ opc = "start"
  /\ Positional(parsed, 0, NoVal) = "mowen"
  /\ IF \/ ~IsEdit(parsed) /\ ~IsPost(parsed)
        \/ UrlArg(parsed) = NoVal
        \/ IsEdit(parsed) /\ NoteIdArg(parsed) = NoVal
        \/ MowenDryRun(parsed)
       THEN opc' = "done" /\ UNCHANGED << issued, writeRes >>
       ELSE \/ opc' = "done" /\ UNCHANGED << issued, writeRes >>
            \/ \E run \in MowenRuns(WriteAction(parsed)) :
                 /\ issued' = Append(issued,
                                Issued("mowen", WriteAction(parsed), NoVal, NoVal))
                 /\ writeRes' = run
                 /\ opc' = "written"
  /\ UNCHANGED << program, started, procVars, now, lastByKey, written, events, store,
                  sendsFor, okSends, cmdline, todo, junkFolder, listed >>

\* handleMowenPostOrEditCommand from the answer of the write action on
OpsMowenSetDoc ==
  LET parsed == ParseArgs(cmdline)
      noteId == IF IsEdit(parsed) THEN NoteIdArg(parsed)
                                  ELSE ExtractMowenNoteId(writeRes)
  IN
  /\ program = "ops"
  /\ opc = "written"
  /\ opc' = "done"
  /\ issued' = IF writeRes.ok /\ noteId # NoVal /\ Visibility(parsed) # NoVal
                 THEN Append(issued, Issued("mowen", "set_doc", NoVal, NoVal))
                 ELSE issued
  /\ UNCHANGED << program, started, procVars, now, lastByKey, written, events, store,
                  sendsFor, okSends, writeRes, cmdline, todo, junkFolder, listed >>

\* an invocation writes its response and exits in this step
Responds(p) == pc[p] # "exited" /\ pc'[p] = "exited"

\* the handler leaves dispatch in this step
Dispatches(p) == pc[p] = "dispatched" /\ pc'[p] # "dispatched"

\* the invocation has written its response and exited
Exited(p) == pc[p] = "exited"

\* the response of the invocation came from main().catch
Crashed(p) ==
  Exited(p) /\ out[p][1] \in { CrashEnvelope(program, t) : t \in Thrown }

\* a backend call of the invocation failed
BackendFailed(p) ==
  \E i \in 1..Len(results[p]) : results[p][i] \in FailedOutcomes

\* the action names a router knows: the ones it serves and, for the notes
\* adapter, their aliases and the ones it names to reject
EnumeratedActions(prog) ==
  CASE prog = "mail" -> MailActions
    [] prog = "calendar" -> CalendarActions
    [] OTHER -> NotesEndpoints \cup NotesRejected
                  \cup {"health", "create_doc", "update_doc", "set_doc"}

\* the phase sequences an invocation can have gone through
PhaseOrder == << "reading", "parsed", "dispatched", "responded" >>
PhaseTrails ==
  { << >>, << "reading" >>, << "reading", "parsed" >>,
    << "reading", "parsed", "dispatched" >>,
    << "reading", "responded" >>, << "reading", "parsed", "responded" >>,
    PhaseOrder }

\* same idempotency entry (account, mode, key) as request r, other content
SameEntryOtherContent(r) ==
  { x \in SendIds : x[1] = SendId(r)[1] /\ x[2] = SendId(r)[2]
                      /\ x[3] = SendId(r)[3] /\ x[4] # SendId(r)[4] }

\* same idempotency key as request r, other content
SameKeyOtherContent(r) ==
  { x \in SendIds : x[3] = SendId(r)[3] /\ x[4] # SendId(r)[4] }

Next ==
  \/ Tick
  \/ OpsRoute
  \/ OpsAccounts
  \/ OpsResolveFolder
  \/ OpsListMessages
  \/ OpsClear
  \/ OpsCalendarDelete
  \/ OpsMowenWrite
  \/ OpsMowenSetDoc
  \/ \E p \in Procs :
    \/ Start(p)
    \/ ReadStdin(p)
    \/ Validate(p)
    \/ MailDispatch(p)
    \/ CalendarDispatch(p)
    \/ NotesDispatch(p)
    \/ ChildExits(p)
    \/ TimerFires(p)
    \/ ChildKilled(p)
    \/ SpawnFails(p)
    \/ RateLimitPasses(p)
    \/ FetchResponds(p)
    \/ FetchRejects(p)
    \/ Reap(p)

Spec == Init /\ [][Next]_vars

\* What the runtime guarantees: the adapter's own code runs on, a timer that
\* was set fires, a child that got SIGKILL closes, a sleep ends, and a fetch
\* is aborted by its AbortSignal timeout.  Nothing makes a backend answer.
Fairness ==
  /\ WF_vars(Tick)
  /\ \A p \in Procs :
       /\ WF_vars(ReadStdin(p))
       /\ WF_vars(Validate(p))
       /\ WF_vars(MailDispatch(p))
       /\ WF_vars(CalendarDispatch(p))
       /\ WF_vars(NotesDispatch(p))
       /\ WF_vars(TimerFires(p))
       /\ WF_vars(ChildKilled(p))
       /\ WF_vars(RateLimitPasses(p))
       /\ WF_vars(FetchRejects(p))

FairSpec == Spec /\ Fairness

\* ------------------------------------------------- overlapping invocations
\* The calling layer may start an adapter while another invocation of it is
\* still running; they share the state directory.  The requests are those
\* that read and write a state file: keyed send_message, and the notes
\* actions that go through the rate limiter.
OverlappingRequests(prog) ==
  IF prog = "mail"
    THEN { [Blank EXCEPT !.action = "send_message", !.rawMessage = m,
                         !.envKey = k]
             : m \in {"M1", "M2"}, k \in Keys }
    ELSE { [Blank EXCEPT !.action = a, !.apiKey = TRUE, !.body = TRUE]
             : a \in {"create_note", "upload_url"} }

StartOverlapping(p) ==
  /\ started < MaxInvocations
  /\ pc[p] = "idle"
  /\ \E r \in OverlappingRequests(program) : req' = [req EXCEPT ![p] = r]
  /\ started' = started + 1
  /\ pc' = [pc EXCEPT ![p] = "reading"]
  /\ trail' = [trail EXCEPT ![p] = << "reading" >>]
  /\ UNCHANGED << program, opsVars, out, exit, backendVars >>

OverlapInit == Init /\ program \in {"mail", "notes"}

OverlapNext ==
  \/ Tick
  \/ \E p \in Procs :
    \/ StartOverlapping(p)
    \/ ReadStdin(p)
    \/ Validate(p)
    \/ MailDispatch(p)
    \/ NotesDispatch(p)
    \/ ChildExits(p)
    \/ TimerFires(p)
    \/ ChildKilled(p)
    \/ SpawnFails(p)
    \/ RateLimitPasses(p)
    \/ FetchResponds(p)
    \/ FetchRejects(p)
    \/ Reap(p)

OverlapSpec == OverlapInit /\ [][OverlapNext]_vars

\* ------------------------------------------------------------ clock steps
\* Date.now() follows the system clock, which can be set back between two
\* readings (a manual change, a time synchronisation step): the rate-limit
\* file then holds timestamps later than the clock
ClockSetBack ==
  /\ program = "notes"
  /\ \A p \in Procs : pc[p] = "idle"
  /\ \E k \in RateLimitKeys : lastByKey[k] > 1
  /\ now > 1
  /\ now' = 1
  /\ UNCHANGED << program, opsVars, started, procVars, lastByKey, written, events, store,
                  sendsFor, okSends >>

SkewInit == Init /\ program = "notes"

SkewNext ==
  \/ Tick
  \/ ClockSetBack
  \/ \E p \in Procs :
    \/ StartOverlapping(p)
    \/ ReadStdin(p)
    \/ Validate(p)
    \/ NotesDispatch(p)
    \/ RateLimitPasses(p)
    \/ FetchResponds(p)
    \/ FetchRejects(p)
    \/ Reap(p)

SkewSpec == SkewInit /\ [][SkewNext]_vars

\* ------------------------------------------------------------------ claims
\* C1: a send_message that repeats the key and the payload of an earlier send
\* the backend accepted is answered ok=true, exit code 0 and duplicate=true
\* without any backend call, so exactly one backend send was accepted for it.
C1_IdempotentSend ==
  [][\A p \in Procs :
       (Responds(p) /\ IsKeyedSend(req[p]) /\ okSends[SendId(req[p])] >= 1)
       => /\ Len(out'[p]) = 1
          /\ out'[p][1].ok /\ out'[p][1].duplicate
          /\ out'[p][1].action = "send_message"
          /\ exit'[p] = 0
          /\ calls'[p] = << >>
          /\ okSends'[SendId(req[p])] = 1
          /\ sendsFor' = sendsFor]_vars

C1_Witness ==
  \E p \in Procs :
    /\ pc[p] = "exited" /\ IsKeyedSend(req[p])
    /\ out[p][1].duplicate /\ exit[p] = 0 /\ calls[p] = << >>
    /\ okSends[SendId(req[p])] = 1

\* C2 as stated: after an accepted send with key K, a send with the same K
\* and another content is answered ok=false, exit code 2, conflict=true and
\* issues no backend send.
C2_AnyContentSameKey ==
  [][\A p \in Procs :
       (/\ Responds(p) /\ IsKeyedSend(req[p])
        /\ okSends[SendId(req[p])] = 0
        /\ \E x \in SameKeyOtherContent(req[p]) : okSends[x] >= 1)
       => /\ ~out'[p][1].ok /\ out'[p][1].conflict
          /\ exit'[p] = 2
          /\ calls'[p] = << >>]_vars

\* C2 amended: the same with "the same K" read as the same idempotency entry:
\* the same account, the same mode (raw message or template) and the same key.
C2_ConflictSameEntry ==
  [][\A p \in Procs :
       (/\ Responds(p) /\ IsKeyedSend(req[p])
        /\ \E x \in SameEntryOtherContent(req[p]) : okSends[x] >= 1)
       => /\ Len(out'[p]) = 1
          /\ ~out'[p][1].ok /\ out'[p][1].conflict
          /\ out'[p][1].action = "send_message"
          /\ exit'[p] = 2
          /\ calls'[p] = << >>
          /\ sendsFor' = sendsFor /\ okSends' = okSends]_vars

C2_Witness ==
  \E p \in Procs :
    /\ pc[p] = "exited" /\ IsKeyedSend(req[p])
    /\ out[p][1].conflict /\ exit[p] = 2 /\ calls[p] = << >>
    /\ \E x \in SameEntryOtherContent(req[p]) : okSends[x] = 1

\* C3: the store holds a record only for a send the backend accepted; a send
\* that failed leaves the store as it was, without a record for its entry, and
\* a keyed send whose entry has no accepted send yet issues the backend send.
C3_RecordOnlyAfterSuccess ==
  /\ [](\A x \in SendIds :
         LET ek == BuildIdempotencyEntryKey(x[1], IF x[2] THEN "template" ELSE "raw-message", x[3])
         IN  store[ek] = Sha256Hex(x[4]) => okSends[x] >= 1)
  /\ [](\A ek \in EntryKeys : store[ek] # NoVal =>
         \E x \in SendIds : okSends[x] >= 1 /\ store[ek] = Sha256Hex(x[4]))
  /\ [][\A p \in Procs :
         /\ (Responds(p) /\ IsKeyedSend(req[p]) /\ calls[p] # << >> /\ exit'[p] # 0)
              => (store' = store /\ store'[SendEntryKey(req[p])] = NoVal)
         /\ (/\ Dispatches(p) /\ IsKeyedSend(req[p])
             /\ \A x \in SendIds :
                  (x[1] = SendId(req[p])[1] /\ x[2] = SendId(req[p])[2]
                   /\ x[3] = SendId(req[p])[3]) => okSends[x] = 0)
              => (/\ pc'[p] = "running"
                  /\ calls'[p] = << MailCommand(req[p]) >>
                  /\ sendsFor'[SendId(req[p])] = sendsFor[SendId(req[p])] + 1)]_vars

C3_Witness ==
  \E p \in Procs :
    /\ pc[p] = "running" /\ IsKeyedSend(req[p])
    /\ sendsFor[SendId(req[p])] = 2 /\ okSends[SendId(req[p])] = 0
    /\ store[SendEntryKey(req[p])] = NoVal

\* C4: a record's contentHash never changes once it exists, and answering a
\* conflicting reuse leaves the store file exactly as it was.
C4_HashNeverChanges ==
  [][/\ \A ek \in EntryKeys : store[ek] # NoVal => store'[ek] = store[ek]
     /\ \A p \in Procs :
          (Responds(p) /\ out'[p][1].conflict) => store' = store]_vars

C4_Witness ==
  \E p \in Procs :
    /\ pc[p] = "exited" /\ IsKeyedSend(req[p]) /\ out[p][1].conflict
    /\ store[SendEntryKey(req[p])] \notin {NoVal, SendContentHash(req[p])}

\* C5 as stated: for every adapter and every request, the exit code is 0 if
\* and only if the response envelope has ok=true.
C5_ExitZeroIffOk ==
  \A p \in Procs : Exited(p) => (exit[p] = 0 <=> out[p][1].ok)

\* C6 as stated: every invocation goes through Reading, Parsed, Dispatched and
\* Responded, in that order, and has written exactly one envelope when it exits.
C6_AllFourPhases ==
  \A p \in Procs : Exited(p) => (trail[p] = PhaseOrder /\ Len(out[p]) = 1)

\* C6 amended: an invocation visits the phases Reading, Parsed, Dispatched,
\* Responded in that order and never goes back, but it may leave out Parsed
\* and Dispatched (stdin that cannot be read) or Dispatched (an envelope that
\* main() rejects); it ends in Responded, and on every path it writes exactly
\* one envelope, in the step in which it exits, and none before.
C6_PhasesInOrder ==
  /\ [](\A p \in Procs :
         /\ trail[p] \in PhaseTrails
         /\ Exited(p) <=> (trail[p] # << >> /\ trail[p][Len(trail[p])] = "responded")
         /\ Len(out[p]) = IF Exited(p) THEN 1 ELSE 0
         /\ Exited(p) <=> exit[p] # NoExit)
  /\ [][\A p \in Procs :
         /\ (trail'[p] # trail[p] /\ trail'[p] # << >>)
              => (Len(trail'[p]) = Len(trail[p]) + 1
                  /\ \A i \in 1..Len(trail[p]) : trail'[p][i] = trail[p][i])
         /\ out'[p] # out[p] => (Responds(p) \/ pc'[p] = "idle")]_vars

C6_Witness ==
  \E p \in Procs :
    /\ Exited(p) /\ Len(out[p]) = 1
    /\ trail[p] = << "reading", "responded" >>
    /\ Crashed(p)

\* C7 as stated: an action outside the router's enumerated set is answered
\* ok=false, exit code 2 and a response that lists the supported actions, and
\* no backend call is made.
C7_UnknownActionListsSupported ==
  \A p \in Procs :
    (/\ Exited(p) /\ IsObject(req[p]) /\ ReadAction(req[p]) # NoVal
     /\ req[p].domain \in {NoVal, "mowen"}
     /\ ReadAction(req[p]) \notin EnumeratedActions(program))
    => /\ ~out[p][1].ok /\ exit[p] = 2
       /\ out[p][1].supported
       /\ calls[p] = << >>

\* C8 as stated: stdin that is empty, not JSON or not a JSON object is answered
\* as a validation error with exit code 2 by every adapter; a missing action
\* is exit code 2 too, with an error of its own.
C8_MalformedIsExitTwo ==
  \A p \in Procs :
    Exited(p) =>
      /\ ~IsObject(req[p]) => (~out[p][1].ok /\ exit[p] = 2)
      /\ (IsObject(req[p]) /\ ReadAction(req[p]) = NoVal)
           => /\ ~out[p][1].ok /\ exit[p] = 2
              /\ \A m \in MalformedRequests :
                   out[p][1].error # EnvelopeError(program, m)

\* C9 as stated: an uncaught error gives a failure envelope (ok=false) and an
\* exit code that is neither the validation code 2 nor the adapter's
\* backend-failure code (nor 0).
C9_CrashCodeReserved ==
  \A p \in Procs :
    Crashed(p) =>
      /\ Len(out[p]) = 1 /\ ~out[p][1].ok
      /\ exit[p] \notin {0, ValidationExit, BackendFailExitOf(program)}

\* C10 as stated: an invocation whose backend call failed (non-zero exit,
\* non-2xx status, transport failure, timeout) answers ok=false and exits with
\* a code that is neither 0 nor 2.
C10_BackendFailureCode ==
  \A p \in Procs :
    (Exited(p) /\ BackendFailed(p)) => (~out[p][1].ok /\ exit[p] \notin {0, 2})

\* a payload that misses a required field or holds an invalid value, told from
\* the request alone
CalendarPayloadInvalid(r) ==
  LET a == ReadAction(r) IN
  CASE a = "create_event" ->
         r.title \in {NoVal, ""} \/ r.start = NoTime
           \/ (r.end # NoTime /\ r.end <= r.start)
    [] a \in {"list_events", "search"} ->
         r.start # NoTime /\ r.end # NoTime /\ r.end <= r.start
    [] a \in {"get_event", "delete_event"} -> r.evId = NoVal
    [] a = "update_event" ->
         r.evId = NoVal \/ r.title = ""
           \/ (r.start # NoTime /\ r.end # NoTime /\ r.end <= r.start)
    [] OTHER -> FALSE

PayloadInvalid(prog, r) ==
  /\ IsObject(r) /\ ReadAction(r) \in EnumeratedActions(prog)
  /\ CASE prog = "mail" -> MailValidation(r) # NoVal
        [] prog = "calendar" -> CalendarPayloadInvalid(r)
        [] OTHER -> /\ r.domain \in {NoVal, "mowen"} /\ r.apiKey
                    /\ RequestBody(r) = NoBody
                    /\ NormalizeAction(ReadAction(r)) \in NotesEndpoints

\* C11 as stated: in every router a request whose payload fails validation
\* (required field missing, end not after start, invalid enum value) ends with
\* ok=false and exit code 2.
C11_ValidationIsExitTwo ==
  \A p \in Procs :
    (Exited(p) /\ PayloadInvalid(program, req[p]))
      => (~out[p][1].ok /\ exit[p] = ValidationExit)

\* the last backend call of the invocation was killed by its timer
LastKilled(p) == child[p] = "killed"

NotesAsks(p, a) ==
  /\ program = "notes" /\ pc[p] # "idle"
  /\ IsObject(req[p]) /\ ReadAction(req[p]) = a

\* C13: the notes adapter's health issues no network call and does not touch
\* the rate-limit file, with or without an API key; it answers with exit code
\* 0 and ok = whether a key is configured.
C13_HealthIsLocal ==
  /\ [](\A p \in Procs : NotesAsks(p, "health") =>
          /\ calls[p] = << >> /\ results[p] = << >>
          /\ pc[p] \notin {"limiting", "fetching"})
  /\ [][\A p \in Procs : NotesAsks(p, "health") =>
          /\ lastByKey' = lastByKey
          /\ (Responds(p) /\ req[p].domain \in {NoVal, "mowen"})
               => /\ exit'[p] = 0
                  /\ out'[p][1].ok = req[p].apiKey
                  /\ out'[p][1].action = "health"]_vars

C13_Witness ==
  \E p \in Procs :
    /\ NotesAsks(p, "health") /\ Exited(p) /\ ~req[p].apiKey
    /\ exit[p] = 0 /\ ~out[p][1].ok /\ calls[p] = << >>
    /\ \E k \in RateLimitKeys : lastByKey[k] # 0

ExpectedKey(action) ==
  IF action \in {"upload_prepare", "upload_url"} THEN "upload.write"
  ELSE "note.write"

\* the invocation starts its HTTP request in this step
StartsFetch(p) == Len(calls'[p]) = Len(calls[p]) + 1 /\ program = "notes"

\* C15: when a rate-limited call follows another one on the same key, its HTTP
\* request starts at least the minimum interval after the timestamp the
\* earlier call recorded.
C15_Spacing ==
  [][\A p \in Procs :
       StartsFetch(p) =>
         LET first == lastByKey[ExpectedKey(ReadAction(req[p]))] IN
         first # 0 => now >= first + MinIntervalTicks]_vars

C15_Witness ==
  \E p \in Procs :
    LET key == ExpectedKey(ReadAction(req[p])) IN
    /\ program = "notes" /\ pc[p] = "fetching"
    /\ rlsnap[p][key] # 0
    /\ wake[p] = rlsnap[p][key] + MinIntervalTicks
    /\ lastByKey[key] = wake[p]

\* C16: a notes-adapter run starts an HTTP call only in the step in which the
\* rate limiter recorded the current time under the key of the action
\* (note.write for create/edit/set note, upload.write for the upload actions)
\* and left the other key alone; so whenever a run has issued an HTTP call
\* the timestamp of its key is on file.
C16_AcquireBeforeCall ==
  /\ [][\A p \in Procs :
         StartsFetch(p) =>
           LET key == ExpectedKey(ReadAction(req[p])) IN
           /\ pc[p] = "limiting" /\ now >= wake[p]
           /\ lastByKey'[key] = now
           /\ \A k \in RateLimitKeys \ {key} : lastByKey'[k] = lastByKey[k]
           /\ calls'[p] = << "fetch" >>]_vars
  /\ [](\A p \in Procs :
         (program = "notes" /\ calls[p] # << >>) =>
           /\ lastByKey[ExpectedKey(ReadAction(req[p]))] >= MinIntervalTicks
           /\ lastByKey[ExpectedKey(ReadAction(req[p]))] <= now
           /\ NormalizeAction(ReadAction(req[p])) \in
                {"create_note", "edit_note", "set_note", "upload_prepare", "upload_url"})

C16_Witness ==
  \E p \in Procs :
    /\ program = "notes" /\ pc[p] = "fetching"
    /\ ReadAction(req[p]) = "upload_url"
    /\ lastByKey["upload.write"] = now
    /\ lastByKey["note.write"] \notin {0, now}

\* C17 as stated: every successful response has ok=true and carries the domain
\* and the action of the request (checked for requests that name a domain).
C17_RoundTrip ==
  \A p \in Procs :
    (Exited(p) /\ exit[p] = 0 /\ out[p][1].ok /\ req[p].domain # NoVal)
      => /\ out[p][1].domain = req[p].domain
         /\ out[p][1].action = ReadAction(req[p])

\* the invocation asks the calendar adapter for a listing
Lists(p) ==
  /\ program = "calendar"
  /\ req[p].stdin = "object"
  /\ ReadAction(req[p]) \in {"list_events", "search"}

CalendarAsks(p, a) ==
  /\ program = "calendar"
  /\ req[p].stdin = "object"
  /\ ReadAction(req[p]) = a

\* C19 as stated: create_event with only start set stores an event that ends
\* 1 hour after its start, or 24 hours after it when it is an all-day event;
\* create_event without title or without start creates nothing.
C19_DefaultEnd ==
  [][\A p \in Procs :
       (CalendarAsks(p, "create_event") /\ Responds(p)) =>
         /\ (req[p].title = NoVal \/ req[p].start = NoTime) => events' = events
         /\ (out'[p][1].ok /\ req[p].end = NoTime) =>
              LET ev == events'[FreshId(events)] IN
              /\ ev.present
              /\ ev.start = req[p].start
              /\ ev.end = req[p].start +
                    (IF req[p].allDay = "yes" THEN DayHours ELSE 1) * HourTicks]_vars

FlagGiven(keys) ==
  \E i \in 1..Len(cmdline) : cmdline[i].dash /\ cmdline[i].key \in keys

\* the actions of the adapters that delete, and the ones that only read
DestructiveActions == {"delete_messages", "purge_folder", "delete_event"}
ReadActions == {"list_accounts", "list_folders", "list_messages", "get_event"}

\* C21 as stated: the command layer sends delete_messages, purge_folder and
\* delete_event only when the confirmation flag is given and, for mail junk,
\* no --dry-run flag is present; otherwise it issues read actions only.
C21_DryRunByDefault ==
  \A i \in 1..Len(issued) :
    /\ issued[i].domain \in {"mail", "calendar"} =>
         issued[i].action \in DestructiveActions \cup ReadActions
    /\ issued[i].action \in {"delete_messages", "purge_folder"} =>
         /\ FlagGiven({"confirm", "yes", "execute"})
         /\ ~FlagGiven({"dry-run", "dry"})
    /\ issued[i].action = "delete_event" => FlagGiven({"confirm"})

\* the command line holds the bare flag --key for one of the keys
BareFlagGiven(keys) ==
  \E i \in 1..Len(cmdline) :
    cmdline[i].dash /\ ~cmdline[i].eq /\ cmdline[i].key \in keys

\* the invocation ran the himalaya subcommand
Ran(p, command) == \E i \in 1..Len(calls[p]) : calls[p][i] = command

\* C22: the command layer issues purge_folder only when --purge and the
\* confirmation are given, with the junk folder named, and delete_messages
\* otherwise; the mail adapter runs the folder purge only for purge_folder with
\* a folder in the payload, and answers exit code 2 without a backend call
\* when there is none
C22_PurgeNeverSilent ==
  /\ \A i \in 1..Len(issued) :
       /\ issued[i].action = "purge_folder" =>
            /\ BareFlagGiven({"purge"})
            /\ BareFlagGiven({"confirm", "yes", "execute"})
            /\ issued[i].folder # NoVal
       /\ issued[i].action = "delete_messages" =>
            ~HasFlag(ParseArgs(cmdline), {"purge"})
  /\ \A p \in Procs :
       program = "mail" =>
         /\ Ran(p, "folder purge") =>
              /\ ReadAction(req[p]) = "purge_folder"
              /\ req[p].folder
              /\ calls[p] = << "folder purge" >>
         /\ (Exited(p) /\ IsObject(req[p]) /\ ReadAction(req[p]) = "purge_folder"
               /\ ~req[p].folder) =>
              /\ exit[p] = ValidationExit
              /\ ~out[p][1].ok
              /\ calls[p] = << >>

\* /ops mail junk clear --confirm --purge has sent purge_folder for the junk
\* folder it found
C22_Witness ==
  /\ cmdline = << Word("mail"), Word("junk"), Word("clear"), Flag("confirm"),
                  Flag("purge") >>
  /\ \E i \in 1..Len(issued) :
       issued[i] = Issued("mail", "purge_folder", "personal", "Junk")

\* C23 as stated: a write that repeats a request the backend has already
\* accepted under the same idempotency key is not issued again.
C23_KeyedWriteOnce ==
  [][\A p \in Procs : StartsFetch(p) => req[p] \notin written]_vars

MailAsks(p, a) ==
  /\ program = "mail"
  /\ IsObject(req[p])
  /\ ReadAction(req[p]) = a

\* C25 as stated: health issues the version check alone without payload.deep
\* and the version check followed by the 1-item listing with it.
C25_HealthCalls ==
  \A p \in Procs :
    (MailAsks(p, "health") /\ Exited(p)) =>
      calls[p] = IF req[p].deep THEN << "--version", "envelope list" >>
                                ELSE << "--version" >>

\* C25 amended: health issues the version check alone, and after it the 1-item
\* listing only when payload.deep is set, an account or a config path is
\* configured, and the version check could be started
C25_HealthCallsConfigured ==
  \A p \in Procs :
    (MailAsks(p, "health") /\ Exited(p)) =>
      calls[p] =
        IF /\ req[p].deep
           /\ (req[p].account # NoVal \/ EnvAccount # NoVal \/ req[p].configPath)
           /\ results[p][1] # "spawn_error"
          THEN << "--version", "envelope list" >>
          ELSE << "--version" >>

\* a deep health check with a config path has run both calls, and one without
\* account and config path would run the version check only
C25_Witness ==
  \E p \in Procs :
    /\ MailAsks(p, "health") /\ Exited(p) /\ out[p][1].ok
    /\ req[p].deep /\ req[p].configPath
    /\ calls[p] = << "--version", "envelope list" >>
    /\ results[p] = << "exit_zero", "exit_zero" >>

\* a backend executable of the invocation could not be spawned
SpawnFailed(p) ==
  \E i \in 1..Len(results[p]) : results[p][i] = "spawn_error"

\* C26 as stated: when the backend executable cannot be spawned, the router
\* answers with a failure envelope that carries the action and the
\* backend-failure exit code, and the crash handler is not reached.
C26_SpawnFailureIsCaught ==
  \A p \in Procs :
    (Exited(p) /\ SpawnFailed(p)) =>
      /\ ~Crashed(p)
      /\ ~out[p][1].ok
      /\ out[p][1].action = ReadAction(req[p])
      /\ exit[p] = BackendFailExit

\* C27 as stated: within one invocation no backend call is issued after one
\* that failed, and an invocation with a failed backend call ends with a
\* non-zero exit code.
C27_NoCallAfterFailure ==
  \A p \in Procs :
    /\ \A i \in 1..Len(results[p]) :
         i < Len(calls[p]) => results[p][i] \notin FailedOutcomes
    /\ (Exited(p) /\ BackendFailed(p)) => exit[p] # 0

\* C28 as stated: draft_reply takes payload.id given as a number, as
\* get_message does, and runs the template-reply command for that message.
C28_DraftReplyNumericId ==
  \A p \in Procs :
    /\ (MailAsks(p, "get_message") /\ Exited(p) /\ req[p].id = "n42") =>
         calls[p] = << "message read" >>
    /\ (MailAsks(p, "draft_reply") /\ Exited(p) /\ req[p].id = "n42") =>
         /\ calls[p] = << "template reply" >>
         /\ exit[p] # ValidationExit

\* the invocation asks for create_note or edit_note with an API key, naming
\* the fields of the note in its payload (and, for edit_note, the note id)
AsksNote(p) ==
  /\ program = "notes" /\ IsObject(req[p])
  /\ req[p].domain \in {NoVal, "mowen"} /\ req[p].apiKey /\ ~req[p].body
  /\ \/ NormalizeAction(ReadAction(req[p])) = "create_note"
     \/ /\ NormalizeAction(ReadAction(req[p])) = "edit_note"
        /\ req[p].id = "s42"

\* the body the priority order gives for a payload: body, then noteAtom (or
\* note_atom when there is no noteAtom key), then paragraphs, then the text,
\* one block per line; NoBody when none of them resolves
BodyByPriority(note) ==
  IF note.body = "record" THEN Doc("body", 1)
  ELSE IF note.noteAtom = "record" THEN Doc("noteAtom", 1)
  ELSE IF note.noteAtom = NoVal /\ note.note_atom = "record"
    THEN Doc("note_atom", 1)
  ELSE IF note.paragraphs = "array" THEN Doc("paragraphs", ParagraphsLen)
  ELSE IF note.text = "text" THEN Doc("text", note.lines)
  ELSE NoBody

\* the handler answers without a rate-limit update or a network call
FailsValidation(p) ==
  /\ Responds(p)
  /\ exit'[p] = ValidationExit /\ ~out'[p][1].ok
  /\ calls'[p] = << >> /\ lastByKey' = lastByKey

\* the request that went to the API had this body
SentWith(p, body) ==
  /\ pc[p] = "fetching" /\ Responds(p)
  /\ results'[p][Len(results'[p])] \in {"http_2xx", "http_error"}
      => out'[p][1].request = body

\* C29 as stated: the note body is the first source that resolves, in the
\* order payload.body, noteAtom/note_atom, paragraphs, flat text split into
\* one paragraph per line; when none resolves create_note/edit_note fails
\* validation with exit code 2 before any rate-limit update or network call.
C29_NoteBodyPriority ==
  [][\A p \in Procs :
       (AsksNote(p) /\ pc'[p] # pc[p] /\ pc[p] \in {"dispatched", "fetching"}) =>
         IF BodyByPriority(req[p].note) = NoBody
           THEN FailsValidation(p)
           ELSE /\ pc[p] = "dispatched" => pc'[p] = "limiting"
                /\ pc[p] = "fetching" => SentWith(p, BodyByPriority(req[p].note))]_vars

\* C29, amended: as above for a payload without a request object; a
\* payload.request that is an object is sent as the request as it is.
C29_NoteBodyPriorityUnlessRaw ==
  [][\A p \in Procs :
       (AsksNote(p) /\ pc'[p] # pc[p] /\ pc[p] \in {"dispatched", "fetching"}) =>
         IF req[p].note.request = "record"
           THEN /\ pc[p] = "dispatched" => pc'[p] = "limiting"
                /\ pc[p] = "fetching" => SentWith(p, Doc("request", 0))
         ELSE IF BodyByPriority(req[p].note) = NoBody
           THEN FailsValidation(p)
           ELSE /\ pc[p] = "dispatched" => pc'[p] = "limiting"
                /\ pc[p] = "fetching" => SentWith(p, BodyByPriority(req[p].note))]_vars

\* a note whose payload has paragraphs and a text was accepted by the API,
\* sent with the paragraphs
C29_Witness ==
  \E p \in Procs :
    /\ AsksNote(p) /\ Exited(p) /\ exit[p] = 0
    /\ req[p].note.paragraphs = "array" /\ req[p].note.text = "text"
    /\ out[p][1].request = Doc("paragraphs", ParagraphsLen)

\* the places of the response JSON where an id is looked for, in order: the
\* top level, then the data, result and note containers
IdPaths ==
  << <<"top", "noteId">>, <<"top", "note_id">>, <<"top", "id">>,
     <<"data", "noteId">>, <<"data", "note_id">>, <<"data", "id">>,
     <<"result", "noteId">>, <<"result", "note_id">>, <<"result", "id">>,
     <<"note", "noteId">>, <<"note", "note_id">>, <<"note", "id">> >>

ValueAt(json, path) ==
  IF path[1] = "top" THEN json[path[2]] ELSE json[path[1]][path[2]]

\* the first non-empty string at one of the paths
RECURSIVE FirstStringAt(_, _)
FirstStringAt(json, paths) ==
  IF paths = << >> THEN NoVal
  ELSE IF ValueAt(json, Head(paths)) \notin {NoVal, "null", ""}
    THEN ValueAt(json, Head(paths))
  ELSE FirstStringAt(json, Tail(paths))

\* the invocation answered with the result of an API call
ApiAnswered(p) ==
  /\ program = "notes" /\ Exited(p) /\ results[p] # << >>
  /\ results[p][Len(results[p])] \in {"http_2xx", "http_error"}

\* C30 as stated: the response carries as flat noteId the first non-empty
\* string found at noteId, note_id, id of the top level, then of the data,
\* result and note containers, whenever the backend JSON holds a string id at
\* one of those places.
C30_FlatNoteId ==
  \A p \in Procs :
    (ApiAnswered(p) /\ FirstStringAt(out[p][1].json, IdPaths) # NoVal) =>
      out[p][1].noteId = FirstStringAt(out[p][1].json, IdPaths)

\* C31 as stated: the calendar adapter's health answers ok=true with exit
\* code 0 exactly when the list-calendars call succeeded and returned a
\* calendar list that is not empty.
C31_HealthNeedsCalendars ==
  \A p \in Procs :
    (CalendarAsks(p, "health") /\ Exited(p) /\ results[p] # << >>) =>
      ((out[p][1].ok /\ exit[p] = 0)
         <=> (results[p][1] = "exit_zero" /\ out[p][1].calendarCount > 0))

\* the envelope without its meta field
WithoutMeta(r) == [r EXCEPT !.meta = NoVal]

\* What an adapter decides for a request in front of the state files and the
\* events as they are: how validation ends, which backend command or HTTP
\* request it issues, what it looks up in the idempotency store and writes
\* to it, which rate-limit key it updates, what the calendar script does.
Decides(prog, r, file, evs) ==
  IF ~IsObject(r) THEN << StdinError(r) >>
  ELSE IF EnvelopeError(prog, r) # NoVal THEN << EnvelopeErrorBody(prog, r) >>
  ELSE CASE prog = "mail" ->
              << MailValidation(r), MailCommand(r), HealthProbes(r),
                 SettingsAccount(r), MailUnsupported(r),
                 IF IsKeyedSend(r)
                   THEN << SendEntryKey(r), SendContentHash(r),
                           ExistingHash(file, r), RecordedStore(file, r) >>
                   ELSE << >> >>
         [] prog = "calendar" -> << JxaMain(r, evs) >>
         [] OTHER ->
              << NormalizeAction(ReadAction(r)), r.apiKey, RequestBody(r),
                 RateLimitKey(NormalizeAction(ReadAction(r))),
                 SanitizeForHealth(r) >>

C33_StoreAppendOnly ==
  [][\A ek \in EntryKeys : store[ek] # NoVal => store'[ek] = store[ek]]_vars

\* the invocation starts the backend send of a keyed send_message
IssuesSend(p) ==
  /\ program = "mail" /\ IsKeyedSend(req[p])
  /\ Len(calls'[p]) = Len(calls[p]) + 1

\* C34: the idempotency check is not transactional across processes: an
\* invocation issues the backend send of a keyed send_message whenever the
\* store holds no record of its key at the time it reads it, whatever other
\* invocations are doing; so two overlapping invocations with the same key
\* and content that both read the store before either records the key both
\* send (the witness), and only an invocation that starts after the other
\* one has recorded the key finds the record and skips the send.
C34_SendsWhenUnrecorded ==
  [][\A p \in Procs :
       /\ IssuesSend(p) => store[SendEntryKey(req[p])] = NoVal
       /\ (Dispatches(p) /\ program = "mail" /\ IsKeyedSend(req[p])
             /\ store[SendEntryKey(req[p])] = NoVal) => IssuesSend(p)]_vars

\* two overlapping invocations with the same key and the same content have
\* both sent the message successfully
C34_Witness ==
  \E p, q \in Procs :
    /\ p # q /\ program = "mail"
    /\ IsKeyedSend(req[p]) /\ req[q] = req[p]
    /\ Exited(p) /\ Exited(q) /\ exit[p] = 0 /\ exit[q] = 0
    /\ calls[p] = << "message send" >> /\ calls[q] = << "message send" >>
    /\ okSends[SendId(req[p])] = 2

\* C35: the rate limiter takes no lock: each call keeps the minimum interval
\* only to the timestamp it read itself; two overlapping invocations on the
\* same key that read the same stored timestamp sleep the same wait and both
\* update it, so that their HTTP calls start less than the minimum interval
\* apart (the witness).
C35_SpacedFromOwnRead ==
  [][\A p \in Procs :
       StartsFetch(p) =>
         LET key == ExpectedKey(ReadAction(req[p])) IN
         /\ rlsnap[p][key] # 0 => now >= rlsnap[p][key] + MinIntervalTicks
         /\ lastByKey'[key] = now]_vars

\* two overlapping calls on the same key read the same stored timestamp,
\* slept until the same instant and have both started their HTTP call at it
C35_Witness ==
  \E p, q \in Procs :
    LET key == ExpectedKey(ReadAction(req[p])) IN
    /\ p # q /\ program = "notes"
    /\ pc[p] = "fetching" /\ pc[q] = "fetching"
    /\ ExpectedKey(ReadAction(req[q])) = key
    /\ rlsnap[p][key] # 0 /\ rlsnap[q][key] = rlsnap[p][key]
    /\ wake[p] = rlsnap[p][key] + MinIntervalTicks /\ wake[q] = wake[p]
    /\ now = wake[p] /\ lastByKey[key] = now

\* the errors updateEvent throws: event not found, empty title, merged end
\* not later than merged start
UpdateErrors ==
  { "event not found", "payload.title/summary cannot be empty",
    "payload.end must be later than payload.start" }

\* C36: update_event is all-or-nothing with respect to validation: when it
\* fails because the event is not found, the title is empty or the merged
\* end is not later than the merged start, no field of the stored event has
\* been changed.
C36_UpdateAllOrNothing ==
  [][\A p \in Procs :
       (CalendarAsks(p, "update_event") /\ Responds(p) /\ ~out'[p][1].ok
          /\ out'[p][1].error \in UpdateErrors) => events' = events]_vars

\* the request is one the mail or notes adapter rejects before it reaches a
\* backend: malformed envelope, unknown or rejected action, missing field,
\* missing required idempotency key, idempotency conflict with the store as
\* it is, missing API key, payload no request can be built from
RejectedBeforeBackend(prog, r, file) ==
  /\ IsObject(r)
  /\ \/ EnvelopeError(prog, r) # NoVal
     \/ /\ prog = "mail"
        /\ \/ ReadAction(r) \notin MailActions
           \/ MailValidation(r) # NoVal
           \/ /\ IsKeyedSend(r)
              /\ ExistingHash(file, r) \notin {NoVal, SendContentHash(r)}
     \/ /\ prog = "notes"
        /\ LET mapped == NormalizeAction(ReadAction(r)) IN
           \/ mapped \in NotesRejected
           \/ mapped \notin NotesEndpoints \cup {"health"}
           \/ mapped \in NotesEndpoints /\ (~r.apiKey \/ RequestBody(r) = NoBody)

\* C37: an invocation of the mail or notes adapter whose request is rejected
\* before it is dispatched to a backend (unknown or rejected action, missing
\* field, missing API key, invalid payload, missing required idempotency key,
\* idempotency conflict) issues no backend call, ends not ok with a non-zero
\* exit code, and leaves the idempotency store and the rate-limit file as
\* they were.
C37_RejectionTouchesNothing ==
  [][\A p \in Procs :
       (/\ program \in {"mail", "notes"}
        /\ pc[p] \in {"parsed", "dispatched"}
        /\ RejectedBeforeBackend(program, req[p], store)) =>
         /\ calls[p] = << >> /\ calls'[p] = << >> /\ results'[p] = << >>
         /\ store' = store /\ lastByKey' = lastByKey
         /\ pc'[p] \in {pc[p], "dispatched", "exited"}
         /\ Responds(p) => (~out'[p][1].ok /\ exit'[p] # 0)]_vars

\* a send whose key is recorded with another content has been refused: no
\* backend call was made and the record is as it was
C37_Witness ==
  \E p \in Procs :
    /\ program = "mail" /\ Exited(p) /\ IsKeyedSend(req[p])
    /\ RejectedBeforeBackend(program, req[p], store)
    /\ out[p][1].conflict /\ exit[p] = ValidationExit
    /\ calls[p] = << >>
    /\ store[SendEntryKey(req[p])] \notin {NoVal, SendContentHash(req[p])}

\* the command line is /ops mowen post or /ops mowen edit
MowenAsks(sub) ==
  /\ program = "ops" /\ Len(cmdline) >= 2
  /\ cmdline[1] = Word("mowen") /\ cmdline[2] = Word(sub)

\* the adapter calls of /ops mowen follow the order write, then set_doc
SetDocFollowsWrite ==
  LET parsed == ParseArgs(cmdline) IN
  \A i \in 1..Len(issued) :
    issued[i].domain = "mowen" =>
      /\ i <= 2
      /\ i = 1 => issued[i].action =
                    (IF MowenAsks("edit") THEN "update_doc" ELSE "create_doc")
      /\ i = 2 =>
           /\ issued[i].action = "set_doc"
           /\ writeRes.ok
           /\ MowenAsks("post") => ExtractMowenNoteId(writeRes) # NoVal
           /\ MowenAsks("edit") =>
                (NoteIdArg(parsed) # NoVal /\ ParseVisibility(parsed) # NoVal)

\* C38 as stated: in /ops mowen post|edit, set_doc is sent only after the
\* write action (create_doc for post, update_doc for edit) returned success
\* and a noteId is known, and only when a visibility is in effect; if the
\* write fails or yields no noteId no set_doc is sent; and with --dry-run no
\* adapter call is made at all.
C38_SetDocAfterWrite ==
  /\ SetDocFollowsWrite
  /\ FlagGiven({"dry-run", "dry"}) =>
       \A i \in 1..Len(issued) : issued[i].domain # "mowen"

\* applyRateLimit computes its wait in this step
ComputesWait(p) ==
  program = "notes" /\ pc[p] = "dispatched" /\ pc'[p] = "limiting"

\* C39 as stated: applyRateLimit never sleeps longer than the minimum
\* interval, whatever timestamp the rate-limit file holds for the key, a
\* timestamp later than the current clock included.
C39_SleepBounded ==
  [][\A p \in Procs :
       ComputesWait(p) => wake'[p] - now <= MinIntervalTicks]_vars

====
